---- MODULE Spec2Model ----
(***************************************************************************)
(* autonomix-cli: release asset resolution and the multi-strategy          *)
(* installation engine (pkg/manager, pkg/installer, pkg/binary, config),   *)
(* driven by the CLI `add` command (Spec) and by the terminal UI (TuiSpec), *)
(* and its functions each called on its own on one input (CallSpec).       *)
(*                                                                         *)
(* Strings that the code takes apart (asset names, paths) are sequences of *)
(* tokens: "app-linux-amd64.tar.gz" is <<"app","-","linux","-","amd64",    *)
(* ".tar.gz">>.  The empty string is <<>>.  The separators "-" and "_" and *)
(* every file suffix are tokens of their own; the keywords of the code    *)
(* that a token holds as a proper substring are listed by KeywordsIn, so   *)
(* that strings.Contains / HasSuffix / HasPrefix / Split are decided on    *)
(* tokens.                                                                 *)
(***************************************************************************)
EXTENDS Integers, Sequences, FiniteSets, TLC

(* ---------------------------------------------------------------- bounds *)

\* assets of one release
MaxAssets == 2

\* assets of the release a resolver function is called with
MaxListed == 3

\* entries of an archive
MaxEntries == 2

\* (probe, name) pairs under which the machine holds an application
MaxFound == 2

(* ------------------------------------------------------- string helpers *)

\* strings.ToLower, token by token
LowerTok(t) ==
  CASE t = ".AppImage" -> ".appimage"
    [] t = "Linux" -> "linux"
    [] t = "AMD64" -> "amd64"
    [] t = "App" -> "app"
    [] t = "My" -> "my"
    [] t = "CLI" -> "cli"
    [] OTHER -> t

ToLower(name) == [i \in 1..Len(name) |-> LowerTok(name[i])]

\* the suffixes of a suffix token that the code asks for
SuffixesOf(t) ==
  CASE t = ".tar.gz" -> {".tar.gz", ".gz"}
    [] t = ".pkg.tar.zst" -> {".pkg.tar.zst", ".zst"}
    [] OTHER -> {t}

\* the keywords of the code that are substrings of a token
KeywordsIn(t) ==
  CASE t = "installer" -> {"installer", "all"}
    [] t = "checksums" -> {"checksums", "checksum"}
    [] OTHER -> {t}

\* strings.Contains(name, kw)
Contains(name, kw) == \E i \in 1..Len(name) : kw \in KeywordsIn(name[i])

\* strings.HasSuffix(name, s)
HasSuffix(name, s) == Len(name) > 0 /\ s \in SuffixesOf(name[Len(name)])

\* strings.HasPrefix(name, s)
HasPrefix(name, s) == Len(name) > 0 /\ name[1] = s

\* strings.TrimSuffix(name, s)
TrimSuffix(name, s) ==
  IF Len(name) > 0 /\ name[Len(name)] = s
    THEN SubSeq(name, 1, Len(name) - 1)
    ELSE IF Len(name) > 0 /\ name[Len(name)] = ".tar.gz" /\ s = ".gz"
      THEN SubSeq(name, 1, Len(name) - 1) \o <<".tar">>
      ELSE name

\* strings.Split(name, "-")[0]
FirstDashPart(name) ==
  IF \E i \in 1..Len(name) : name[i] = "-"
    THEN LET k == CHOOSE i \in 1..Len(name) :
                    name[i] = "-" /\ \A j \in 1..(i - 1) : name[j] # "-"
         IN SubSeq(name, 1, k - 1)
    ELSE name

\* strings.TrimPrefix(tag, "v") on the release tags of the model
TrimPrefixV(tag) ==
  CASE tag = "v1.0.0" -> "1.0.0"
    [] tag = "v1.1.0" -> "1.1.0"
    [] tag = "v0.3.0" -> "0.3.0"
    [] OTHER -> tag

(* ------------------------------------------------------------ constants *)

Auto == "Auto"
SystemPath == "SystemPath"
UserPath == "UserPath"
Homebrew == "Homebrew"
AutonomixPath == "AutonomixPath"

InstallMethodPackage == "package"
InstallMethodBinary == "binary"
InstallMethodHomebrew == "homebrew"
InstallMethodUnknown == ""
StatusInstalled == "installed"
StatusFailed == "failed"

NoPath == <<>>
TempDir == "/tmp"
TmpPath(name) == <<TempDir>> \o name

(* ---------------------------------------------------------- error values *)

\* an error: the strategy whose code produced it, and its message
NoErr == [by |-> "", msg |-> ""]
Err(by, msg) == [by |-> by, msg |-> msg]

(* ------------------------------------------------------ asset catalogue *)

DebAmd64 == <<"app", "_", "1.0.0", "_", "amd64", ".deb">>
TarLinuxAmd64 == <<"app", "-", "linux", "-", "amd64", ".tar.gz">>
RawLinuxAmd64 == <<"app", "-", "linux", "-", "amd64">>
TarDarwinArm64 == <<"app", "-", "darwin", "-", "arm64", ".tar.gz">>

AssetNames == {DebAmd64, TarLinuxAmd64, RawLinuxAmd64, TarDarwinArm64}

\* the asset lists of a release: no asset twice, at most MaxAssets
AssetLists ==
  UNION {{s \in [1..n -> AssetNames] : \A i, j \in 1..n : i # j => s[i] # s[j]}
         : n \in 0..MaxAssets}

Tags == {"v1.0.0"}

Releases == [TagName : Tags, Assets : AssetLists]

\* the hosts: runtime.GOOS, runtime.GOARCH, the preferred package type and
\* whether `brew` is on PATH
Hosts ==
  [goos : {"linux", "darwin"}, goarch : {"amd64", "arm64"},
   sysType : {"deb", "unknown"}, brew : BOOLEAN]

(* ------------------------------------------- package type (pkg/packages) *)

\* packages.DetectType: by suffix of the lower-cased name
DetectType(name) ==
  LET lower == ToLower(name)
  IN CASE HasSuffix(lower, ".deb") -> "deb"
       [] HasSuffix(lower, ".rpm") -> "rpm"
       [] HasSuffix(lower, ".pkg.tar.zst") -> "pacman"
       [] HasSuffix(lower, ".flatpak") -> "flatpak"
       [] HasSuffix(lower, ".snap") -> "snap"
       [] HasSuffix(lower, ".appimage") -> "appimage"
       [] OTHER -> "unknown"

(* ------------------------------------- native-package mode (installer.go) *)

\* archKeywords of GetCompatibleAssets
ArchKeywords(arch) ==
  {arch}
  \cup (IF arch = "amd64" THEN {"x86_64", "x64"}
        ELSE IF arch = "arm64" THEN {"aarch64", "armv8"} ELSE {})
  \cup {"all", "noarch", "any"}

\* GetCompatibleAssets without the error for a release that has packages of
\* the type but none for the architecture
GetCompatibleAssetsSilent(release, h) ==
  LET matchedArch(a) == \E kw \in ArchKeywords(h.goarch) : Contains(ToLower(a), kw)
      ok(a) == DetectType(a) = h.sysType /\ matchedArch(a)
  IN IF h.sysType = "unknown"
       THEN [assets |-> <<>>, err |-> "could not detect system package manager",
             types |-> {}]
       ELSE [assets |-> SelectSeq(release.Assets, ok), err |-> "", types |-> {}]

\* GetCompatibleAssets(release) on host h: the compatible assets in release
\* order, or an error; types are the keys of availableTypes that the error
\* message lists after "Available types:"
GetCompatibleAssets(release, h) ==
  LET matchedArch(a) == \E kw \in ArchKeywords(h.goarch) : Contains(ToLower(a), kw)
      ok(a) == DetectType(a) = h.sysType /\ matchedArch(a)
      compatible == SelectSeq(release.Assets, ok)
      availableTypes ==
        {DetectType(release.Assets[i]) : i \in 1..Len(release.Assets)} \ {"unknown"}
  IN IF h.sysType = "unknown"
       THEN [assets |-> <<>>, err |-> "could not detect system package manager",
             types |-> {}]
       ELSE IF compatible = <<>> /\ availableTypes # {}
         THEN [assets |-> <<>>, err |-> "no packages found for this architecture",
               types |-> availableTypes]
         ELSE [assets |-> compatible, err |-> "", types |-> {}]

\* GetInstallCmd: the package manager command of the host, or an error
GetInstallCmd(h) ==
  CASE h.sysType = "deb" -> [cmd |-> "apt-get install", err |-> ""]
    [] h.sysType = "rpm" -> [cmd |-> "rpm -Uvh", err |-> ""]
    [] h.sysType = "pacman" -> [cmd |-> "pacman -U", err |-> ""]
    [] OTHER -> [cmd |-> "", err |-> "unsupported install type"]

(* ------------------------------------------------ binary mode (detector) *)

IsBinaryAsset(name) ==
  LET n == ToLower(name)
  IN IF Contains(n, "checksum") \/ Contains(n, "sha256") \/ Contains(n, "sha512")
        \/ HasSuffix(n, ".sig") \/ HasSuffix(n, ".asc")
       THEN FALSE
       ELSE IF HasPrefix(n, "source") \/ Contains(n, "src")
         THEN FALSE
         ELSE ~HasSuffix(n, ".deb") /\ ~HasSuffix(n, ".rpm") /\ ~HasSuffix(n, ".apk")
              /\ ~HasSuffix(n, ".dmg") /\ ~HasSuffix(n, ".pkg")

GetBinaryName(name) ==
  FirstDashPart(
    TrimSuffix(TrimSuffix(TrimSuffix(TrimSuffix(name, ".tar.gz"), ".tgz"), ".zip"), ".gz"))

\* MatchesPlatform with an operating system switch that defaults to a match
MatchesPlatformOpen(name, h) ==
  LET n == ToLower(name)
      osMatch ==
        CASE h.goos = "darwin" ->
               Contains(n, "darwin") \/ Contains(n, "macos") \/ Contains(n, "osx")
          [] h.goos = "linux" -> Contains(n, "linux")
          [] OTHER -> TRUE
      archMatch ==
        CASE h.goarch = "amd64" ->
               Contains(n, "amd64") \/ Contains(n, "x86_64") \/ Contains(n, "x64")
          [] h.goarch = "arm64" -> Contains(n, "arm64") \/ Contains(n, "aarch64")
          [] OTHER -> FALSE
  IN IF ~osMatch THEN FALSE ELSE archMatch

MatchesPlatform(name, h) ==
  LET n == ToLower(name)
      osMatch ==
        CASE h.goos = "darwin" ->
               Contains(n, "darwin") \/ Contains(n, "macos") \/ Contains(n, "osx")
          [] h.goos = "linux" -> Contains(n, "linux")
          [] OTHER -> FALSE
      archMatch ==
        CASE h.goarch = "amd64" ->
               Contains(n, "amd64") \/ Contains(n, "x86_64") \/ Contains(n, "x64")
          [] h.goarch = "arm64" -> Contains(n, "arm64") \/ Contains(n, "aarch64")
          [] OTHER -> FALSE
  IN IF ~osMatch THEN FALSE ELSE archMatch

isArchive(name) ==
  LET lower == ToLower(name)
  IN HasSuffix(lower, ".tar.gz") \/ HasSuffix(lower, ".tgz")
     \/ HasSuffix(lower, ".zip") \/ HasSuffix(lower, ".gz")

getPriority(name) ==
  LET lower == ToLower(name)
  IN IF ~isArchive(name) THEN 3
     ELSE IF HasSuffix(lower, ".tar.gz") \/ HasSuffix(lower, ".tgz") THEN 2
     ELSE IF HasSuffix(lower, ".zip") THEN 1
     ELSE 0

\* DetectBinaryAssets(release): the candidates in release order
DetectBinaryAssets(release, h) ==
  LET keep(a) == IsBinaryAsset(a) /\ MatchesPlatform(a, h)
      kept == SelectSeq(release.Assets, keep)
  IN [i \in 1..Len(kept) |->
        [Asset |-> kept[i], BinaryName |-> GetBinaryName(kept[i]),
         IsArchive |-> isArchive(kept[i]), Priority |-> getPriority(kept[i])]]

\* the selection loop of tryBinaryInstall: the first candidate of the highest
\* priority (a later one replaces the selection only when strictly higher)
RECURSIVE SelectFrom(_, _, _)
SelectFrom(binaries, i, selected) ==
  IF i > Len(binaries) THEN selected
  ELSE SelectFrom(binaries, i + 1,
                  IF binaries[i].Priority > selected.Priority
                    THEN binaries[i] ELSE selected)

\* the selection without the priority loop
SelectBinaryFirst(binaries) == binaries[1]

SelectBinary(binaries) == SelectFrom(binaries, 1, binaries[1])

(* --------------------------------------- install path (binary/installer) *)

LocalBin == "$HOME/.local/bin"
UsrLocalBin == "/usr/local/bin"
AutonomixBin == "$HOME/.autonomix/bin"

\* the PATH values the planner is run under: sequences of segments
PathEnvs ==
  {<<"/usr/bin">>, <<"/usr/bin", LocalBin>>, <<"/opt/$HOME/.local/bin/x">>}

\* isInPath that also accepts a segment which only contains dir
isInPathContains(dir, pathEnv) ==
  \E i \in 1..Len(pathEnv) :
    pathEnv[i] \in {dir, "/opt/$HOME/.local/bin/x", "$HOME/.local/bin/"}

\* isInPath(dir): some segment of PATH equals dir
isInPath(dir, pathEnv) == \E i \in 1..Len(pathEnv) : pathEnv[i] = dir

\* determineInstallPath that plans every request the way it plans Auto
determineInstallPathProbing(appName, m, localBinExists, pathEnv) ==
  IF localBinExists /\ isInPath(LocalBin, pathEnv)
    THEN [path |-> <<LocalBin>> \o appName, method |-> UserPath, sudo |-> FALSE]
    ELSE [path |-> <<UsrLocalBin>> \o appName, method |-> SystemPath, sudo |-> TRUE]

\* determineInstallPath(appName, method) under the environment
\* (localBinExists: os.Stat of ~/.local/bin succeeds)
determineInstallPath(appName, m, localBinExists, pathEnv) ==
  IF m = Auto
    THEN IF localBinExists /\ isInPath(LocalBin, pathEnv)
      THEN [path |-> <<LocalBin>> \o appName, method |-> UserPath, sudo |-> FALSE]
      ELSE [path |-> <<UsrLocalBin>> \o appName, method |-> SystemPath, sudo |-> TRUE]
    ELSE CASE m = SystemPath ->
                [path |-> <<UsrLocalBin>> \o appName, method |-> SystemPath, sudo |-> TRUE]
           [] m = UserPath ->
                [path |-> <<LocalBin>> \o appName, method |-> UserPath, sudo |-> FALSE]
           [] m = AutonomixPath ->
                [path |-> <<AutonomixBin>> \o appName, method |-> AutonomixPath,
                 sudo |-> FALSE]
           [] OTHER ->
                [path |-> <<AutonomixBin>> \o appName, method |-> AutonomixPath,
                 sudo |-> FALSE]

(* ----------------------------------------------------- tracked records *)

Urls == {"https://github.com/o/app", "https://github.com/O/App",
         "https://github.com/o/tool"}

\* strings.EqualFold on the repository URLs of the model
FoldURL(u) ==
  CASE u = "https://github.com/O/App" -> "https://github.com/o/app"
    [] u = "https://github.com/TimAppleDotCom/autonomix-cli" ->
         "https://github.com/timappledotcom/autonomix-cli"
    [] OTHER -> u

\* a comparison of the URLs that minds the case
EqualExact(a, b) == a = b

EqualFold(a, b) == FoldURL(a) = FoldURL(b)

\* getRepoName: the last path segment of the URL
getRepoName(u) ==
  CASE u = "https://github.com/o/app" -> "app"
    [] u = "https://github.com/O/App" -> "App"
    [] u = "https://github.com/timappledotcom/autonomix-cli" -> "autonomix-cli"
    [] u = "https://github.com/TimAppleDotCom/autonomix-cli" -> "autonomix-cli"
    [] OTHER -> "tool"

\* config.App as AddApp creates it
NewApp(name, url, latest, ver) ==
  [Name |-> name, RepoURL |-> url, Version |-> ver, Latest |-> latest,
   InstallMethod |-> InstallMethodUnknown, BinaryPath |-> NoPath,
   InstallStatus |-> "", InstallError |-> ""]

\* what exec.LookPath(app.Name) and `brew list` answer during a Save
Lookups == {"notfound", "usrbin", "cellar", "cellar_unlisted"}

LookPathOf(name, look) ==
  IF look = "usrbin" THEN <<"/usr/bin", name>> ELSE <<"/opt/homebrew/bin", name>>

\* detectInstallMethod that gives up (Unknown) when `brew list` does not know
\* the executable it found, after it has written the path into the record
detectInstallMethodUnlisted(a, look) ==
  IF look = "notfound"
    THEN [app |-> a, method |-> InstallMethodUnknown]
    ELSE LET path == LookPathOf(a.Name, look)
             found == [a EXCEPT !.BinaryPath = path]
         IN IF path[1] = "/opt/homebrew/bin"
              THEN [app |-> found,
                    method |-> IF look = "cellar" THEN InstallMethodHomebrew
                               ELSE InstallMethodUnknown]
              ELSE [app |-> found, method |-> InstallMethodBinary]

\* detectInstallMethod(app): the record as it leaves it, and the method returned
detectInstallMethod(a, look) ==
  IF look = "notfound"
    THEN [app |-> a, method |-> InstallMethodUnknown]
    ELSE LET path == LookPathOf(a.Name, look)
             found == [a EXCEPT !.BinaryPath = path]
         IN IF path[1] = "/opt/homebrew/bin" /\ look = "cellar"
              THEN [app |-> found, method |-> InstallMethodHomebrew]
              ELSE [app |-> found, method |-> InstallMethodBinary]

\* the migration loop of config.Save over the records
SaveApps(apps, looks) ==
  [i \in 1..Len(apps) |->
     IF apps[i].InstallMethod = "" /\ apps[i].Version # ""
       THEN LET d == detectInstallMethod(apps[i], looks[i])
            IN [d.app EXCEPT !.InstallMethod = d.method]
       ELSE apps[i]]

\* the answers a Save of `apps` can get: one per record that is migrated
LooksFor(apps) ==
  {l \in [1..Len(apps) -> Lookups] :
     \A i \in 1..Len(apps) :
       ~(apps[i].InstallMethod = "" /\ apps[i].Version # "") => l[i] = "notfound"}

(* -------------------------------------------------------------- state *)

VARIABLES
  host,        \* the machine: GOOS, GOARCH, preferred package type, brew
  disk,        \* ~/.autonomix/config.json: the persisted records
  cfg,         \* cfg.Apps of the running command
  pc,          \* where the `add` command stands, from "start" to "exited"
  method,      \* the install method the command asks for
  rel,         \* the release InstallApp works on
  mgr,         \* the strategy function of pkg/manager that is running
  run,         \* calls of installer.InstallUpdate made by this InstallApp
  selected,    \* tryBinaryInstall: the selected candidate
  pkgPath,     \* tryPackageInstall: the downloaded package (a temp file name)
  assetPath,   \* tryBinaryInstall: the downloaded asset (a temp file name)
  binaryPath,  \* tryBinaryInstall: the extracted executable (a temp file name)
  iuRes,       \* what InstallUpdate returns
  tmp,         \* the files of os.TempDir(), by name
  bins,        \* the install paths that hold a written binary
  log,         \* the external operations of this InstallApp, in order
  errs,        \* the errors the strategies of this InstallApp produced, in order
  retErr,      \* the error InstallApp returned
  exitCode,    \* exit status of the command
  list,        \* tui.Model.list: the items, each a copy of a record
  cursor,      \* m.list.Index()
  state,       \* m.state
  status,      \* m.status
  uiErr,       \* m.err ("" is nil)
  deleteIndex, \* m.deleteIndex
  selectedApp, \* m.selectedApp (NoApp is nil)
  cmds,        \* the tea.Cmd goroutines in flight, each with its message once it ran
  installed,   \* the applications an install of this session put on the machine
  arg,         \* the input a function of the resolution engine is called with
  ret          \* the function called last on arg, and what it returned

\* the state of the terminal UI
tuiVars ==
  <<list, cursor, state, status, uiErr, deleteIndex, selectedApp, cmds, installed>>

\* the state of a CLI command
cliVars ==
  <<pc, method, rel, mgr, run, selected, pkgPath, assetPath, binaryPath, iuRes,
    tmp, bins, log, errs, retErr, exitCode>>

\* the state of a call of one function on its own
callVars == <<arg, ret>>

vars ==
  <<host, disk, cfg, pc, method, rel, mgr, run, selected, pkgPath, assetPath,
    binaryPath, iuRes, tmp, bins, log, errs, retErr, exitCode, list, cursor,
    state, status, uiErr, deleteIndex, selectedApp, cmds, installed, arg, ret>>

NoRelease == [TagName |-> "", Assets |-> <<>>]
NoBinary == [Asset |-> <<>>, BinaryName |-> <<>>, IsArchive |-> FALSE, Priority |-> 0]
NoResult == [ok |-> FALSE, Method |-> "", Path |-> NoPath, err |-> NoErr]

\* the record InstallApp writes: handleAdd passes &cfg.Apps[len(cfg.Apps)-1]
app == cfg[Len(cfg)]
SetApp(a) == [cfg EXCEPT ![Len(cfg)] = a]

\* the strategy a function of pkg/installer or pkg/manager belongs to
StrategyOf(fn) ==
  CASE fn = "installer.tryPackageInstall" -> "package"
    [] fn = "installer.tryBinaryInstall" -> "binary"
    [] OTHER -> "homebrew"

\* an operation as the log keeps it: what was done (download, pkgcmd, extract,
\* place, brewsearch, brewinstall, or tryhomebrew: a tryHomebrewInstall function
\* was entered), by which function, on what, whether it succeeded, under which
\* strategy function of the manager and in which call of InstallUpdate
Ev(op, fn, asset, ok) ==
  [op |-> op, fn |-> fn, inst |-> StrategyOf(fn), asset |-> asset, ok |-> ok,
   mgr |-> mgr, run |-> run]

\* no function is called on its own
CallIdle == arg = [kind |-> "none"] /\ ret = [fn |-> "", out |-> <<>>]

\* no terminal UI is running
TuiIdle ==
  /\ list = <<>>
  /\ cursor = 0
  /\ state = "viewList"
  /\ status = <<>>
  /\ uiErr = ""
  /\ deleteIndex = 0
  /\ selectedApp = NewApp("", "", "", "")
  /\ cmds = <<>>
  /\ installed = {}

Init ==
  /\ host \in Hosts
  /\ disk = <<>>
  /\ cfg = <<>>
  /\ pc = "start"
  /\ method = Auto
  /\ rel = NoRelease
  /\ mgr = ""
  /\ run = 0
  /\ selected = NoBinary
  /\ pkgPath = <<>>
  /\ assetPath = <<>>
  /\ binaryPath = <<>>
  /\ iuRes = NoResult
  /\ tmp = {}
  /\ bins = {}
  /\ log = <<>>
  /\ errs = <<>>
  /\ retErr = NoErr
  /\ exitCode = 0
  /\ TuiIdle
  /\ CallIdle

(* ------------------------------------------- manager: what it records *)

\* manager.tryPackageInstall, after InstallUpdate succeeded
RecordPackage(a, release) ==
  [a EXCEPT !.Version = TrimPrefixV(release.TagName),
            !.InstallMethod = InstallMethodPackage]

\* manager.tryBinaryInstall, after InstallUpdate succeeded with `result`
RecordBinary(a, release, result) ==
  [a EXCEPT !.Version = TrimPrefixV(release.TagName),
            !.BinaryPath = result.Path,
            !.InstallMethod = InstallMethodBinary]

\* manager.tryHomebrewInstall, after `brew install` succeeded; ver is what
\* GetInstalledVersion answered ("" when it failed)
RecordHomebrew(a, ver) ==
  [a EXCEPT !.Version = IF ver # "" THEN ver ELSE @,
            !.InstallMethod = InstallMethodHomebrew]

\* InstallApp / installWithMethod on success
MarkInstalled(a) == [a EXCEPT !.InstallStatus = StatusInstalled]

\* InstallApp that marks the record failed and keeps no message
MarkFailedNoMessage(a, err) == [a EXCEPT !.InstallStatus = StatusFailed]

\* InstallApp that writes the version of the release before it looks at the
\* error of the strategy
MarkFailedVersioned(a, err) ==
  [a EXCEPT !.InstallStatus = StatusFailed, !.InstallError = err.msg,
            !.Version = "1.0.0"]

\* InstallApp / installWithMethod on the error they return
MarkFailed(a, err) ==
  [a EXCEPT !.InstallStatus = StatusFailed, !.InstallError = err.msg]

\* InstallUpdate: whether tryPackageInstall is tried before tryBinaryInstall
TryPackageFirst(forceMethod, m) == ~forceMethod \/ m = Auto

\* the InstallOptions the manager builds: Method as given, ForceMethod unset
OptsMethod == IF mgr = "package" THEN Auto ELSE method
OptsForceMethod == FALSE

\* the first step of a call of InstallUpdate
InstallUpdateEntry(forceMethod, m) ==
  IF TryPackageFirst(forceMethod, m) THEN "DownloadUpdate" ELSE "BinaryDownload"

\* InstallApp after tryPackageInstall failed: Homebrew on macOS only
AfterPackageFailed(h) == IF h.goos = "darwin" THEN "homebrew" ELSE "binary"

\* homebrew.IsInstalled
BrewIsInstalled(h) == IF h.goos # "darwin" THEN FALSE ELSE h.brew

(* ------------------------------------------------- the `add` command *)

ResetCall ==
  /\ method' = Auto
  /\ rel' = NoRelease
  /\ mgr' = ""
  /\ run' = 0
  /\ selected' = NoBinary
  /\ pkgPath' = <<>>
  /\ assetPath' = <<>>
  /\ binaryPath' = <<>>
  /\ iuRes' = NoResult
  /\ log' = <<>>
  /\ errs' = <<>>
  /\ retErr' = NoErr

\* os.Exit / return from the command: the process and its memory are gone
Exit(code) ==
  /\ pc' = "exited"
  /\ exitCode' = code
  /\ cfg' = <<>>
  /\ ResetCall

AlreadyTracked(apps, url) == \E i \in 1..Len(apps) : EqualFold(apps[i].RepoURL, url)

\* handleAdd up to the install: config.Load, manager.AddApp (duplicate check,
\* GetLatestRelease, CheckInstalled, append, Save) and the branch for an
\* application that is installed already
HandleAdd ==
  /\ UNCHANGED <<tuiVars, callVars>>
  /\ pc = "start"
  /\ \E url \in Urls, m \in {Auto, Homebrew, UserPath, SystemPath} :
       \/ \* already tracked, or the release cannot be fetched
          /\ Exit(1)
          /\ UNCHANGED <<host, disk, tmp, bins>>
       \/ /\ ~AlreadyTracked(disk, url)
          /\ \E release \in Releases, ver \in {"", "0.9.0"} :
               LET new == NewApp(getRepoName(url), url, release.TagName, ver)
                   apps0 == Append(disk, new)
               IN \E looks \in LooksFor(apps0) :
                    LET apps1 == SaveApps(apps0, looks)
                    IN IF ver # ""
                         THEN \* "Already installed": mark, Save, return
                              LET apps2 == [apps1 EXCEPT ![Len(apps1)] = MarkInstalled(@)]
                              IN \E looks2 \in LooksFor(apps2) :
                                   /\ disk' = SaveApps(apps2, looks2)
                                   /\ Exit(0)
                                   /\ UNCHANGED <<host, tmp, bins>>
                         ELSE /\ disk' = apps1
                              /\ cfg' = apps1
                              /\ method' = m
                              /\ pc' = "GetRelease"
                              /\ UNCHANGED <<host, rel, mgr, run, selected, pkgPath,
                                             assetPath, binaryPath, iuRes, tmp, bins,
                                             log, errs, retErr, exitCode>>

\* handleAdd: github.GetLatestRelease before the install
GetRelease ==
  /\ UNCHANGED <<tuiVars, callVars>>
  /\ pc = "GetRelease"
  /\ \/ /\ Exit(1)
        /\ UNCHANGED <<host, disk, tmp, bins>>
     \/ /\ rel' \in Releases
        /\ pc' = "InstallApp"
        /\ UNCHANGED <<host, disk, cfg, method, mgr, run, selected, pkgPath, assetPath,
                       binaryPath, iuRes, tmp, bins, log, errs, retErr, exitCode>>

(* ------------------------------------------------ manager.InstallApp *)

\* InstallApp up to its first external operation: the dispatch on the method,
\* installWithMethod, and GetCompatibleAssets of manager.tryPackageInstall
InstallApp ==
  /\ UNCHANGED <<tuiVars, callVars>>
  /\ pc = "InstallApp"
  /\ IF method # Auto
       THEN IF method = Homebrew
              THEN /\ mgr' = "homebrew"
                   /\ pc' = "ManagerHomebrew"
                   /\ UNCHANGED <<run, errs>>
              ELSE /\ mgr' = "binary"
                   /\ run' = run + 1
                   /\ pc' = InstallUpdateEntry(OptsForceMethod, method)
                   /\ UNCHANGED errs
       ELSE LET r == GetCompatibleAssets(rel, host)
            IN IF r.err # "" \/ Len(r.assets) = 0
                 THEN /\ errs' = Append(errs, Err("package", "no compatible assets"))
                      /\ mgr' = AfterPackageFailed(host)
                      /\ IF AfterPackageFailed(host) = "homebrew"
                           THEN pc' = "ManagerHomebrew" /\ UNCHANGED run
                           ELSE /\ run' = run + 1
                                /\ pc' = InstallUpdateEntry(OptsForceMethod, Auto)
                 ELSE /\ mgr' = "package"
                      /\ run' = run + 1
                      /\ pc' = InstallUpdateEntry(OptsForceMethod, Auto)
                      /\ UNCHANGED errs
  /\ UNCHANGED <<host, disk, cfg, method, rel, selected, pkgPath, assetPath,
                 binaryPath, iuRes, tmp, bins, log, retErr, exitCode>>

(* ------------------------------------------- installer.InstallUpdate *)

\* DownloadAsset / downloadFile: "http" fails before the file is created
\* (http.Get, bad status, os.Create), "copy" fails in io.Copy after os.Create
DownloadOutcomes == {"ok", "http", "copy"}

\* the files of the temp directory after downloadFile(name) ended with outcome o
AfterDownload(files, name, o) == IF o = "http" THEN files ELSE files \cup {name}

\* installer.tryPackageInstall, first half: DownloadUpdate (GetCompatibleAssets,
\* then DownloadAsset of the first compatible asset)
DownloadUpdate ==
  /\ UNCHANGED <<tuiVars, callVars>>
  /\ pc = "DownloadUpdate"
  /\ LET r == GetCompatibleAssets(rel, host)
     IN IF r.err # "" \/ Len(r.assets) = 0
          THEN /\ errs' = Append(errs, Err("package",
                              IF r.err # "" THEN r.err ELSE "no compatible assets found"))
               /\ pc' = "BinaryDownload"
               /\ UNCHANGED <<pkgPath, tmp, log>>
          ELSE \E o \in DownloadOutcomes :
                 /\ tmp' = AfterDownload(tmp, r.assets[1], o)
                 /\ log' = Append(log, Ev("download", "installer.tryPackageInstall", r.assets[1], o = "ok"))
                 /\ IF o = "ok"
                      THEN /\ pkgPath' = r.assets[1]
                           /\ pc' = "RunInstallCmd"
                           /\ UNCHANGED errs
                      ELSE /\ errs' = Append(errs, Err("package", "failed to download"))
                           /\ pc' = "BinaryDownload"
                           /\ UNCHANGED pkgPath
  /\ UNCHANGED <<host, disk, cfg, method, rel, mgr, run, selected, assetPath,
                 binaryPath, iuRes, bins, retErr, exitCode>>

\* installer.tryPackageInstall, second half: GetInstallCmd, cmd.Run, and the
\* deferred os.Remove(path)
RunInstallCmd ==
  /\ UNCHANGED <<tuiVars, callVars>>
  /\ pc = "RunInstallCmd"
  /\ tmp' = tmp \ {pkgPath}
  /\ pkgPath' = <<>>
  /\ IF GetInstallCmd(host).err # ""
       THEN /\ errs' = Append(errs, Err("package", GetInstallCmd(host).err))
            /\ pc' = "BinaryDownload"
            /\ UNCHANGED <<log, iuRes>>
       ELSE \E ok \in BOOLEAN :
              /\ log' = Append(log, Ev("pkgcmd", "installer.tryPackageInstall", pkgPath, ok))
              /\ IF ok
                   THEN /\ iuRes' = [ok |-> TRUE, Method |-> "package",
                                     Path |-> TmpPath(pkgPath), err |-> NoErr]
                        /\ pc' = "InstallUpdateRet"
                        /\ UNCHANGED errs
                   ELSE /\ errs' = Append(errs, Err("package", "exit status 1"))
                        /\ pc' = "BinaryDownload"
                        /\ UNCHANGED iuRes
  /\ UNCHANGED <<host, disk, cfg, method, rel, mgr, run, selected, assetPath,
                 binaryPath, bins, retErr, exitCode>>

\* tryBinaryInstall returns err
BinaryFails(msg) ==
  /\ errs' = Append(errs, Err("binary", msg))
  /\ iuRes' = [ok |-> FALSE, Method |-> "", Path |-> NoPath, err |-> Err("binary", msg)]
  /\ pc' = "InstallUpdateRet"

\* tryBinaryInstall after DownloadAsset ended with outcome o
DownloadNext(o) == IF o = "ok" THEN "ExtractBinary" ELSE "InstallUpdateRet"

\* installer.tryBinaryInstall, first part: DetectBinaryAssets, the selection
\* and DownloadAsset of the selected asset
BinaryDownload ==
  /\ UNCHANGED <<tuiVars, callVars>>
  /\ pc = "BinaryDownload"
  /\ LET binaries == DetectBinaryAssets(rel, host)
     IN IF Len(binaries) = 0
          THEN /\ BinaryFails("no binary assets found")
               /\ UNCHANGED <<selected, assetPath, tmp, log>>
          ELSE LET sel == SelectBinary(binaries)
               IN \E o \in DownloadOutcomes :
                    /\ selected' = sel
                    /\ tmp' = AfterDownload(tmp, sel.Asset, o)
                    /\ log' = Append(log, Ev("download", "installer.tryBinaryInstall", sel.Asset, o = "ok"))
                    /\ IF DownloadNext(o) = "ExtractBinary"
                         THEN /\ assetPath' = sel.Asset
                              /\ pc' = "ExtractBinary"
                              /\ UNCHANGED <<errs, iuRes>>
                         ELSE /\ BinaryFails("failed to download")
                              /\ UNCHANGED assetPath
  /\ UNCHANGED <<host, disk, cfg, method, rel, mgr, run, pkgPath, binaryPath, bins,
                 retErr, exitCode>>

\* binary.ExtractBinary on a downloaded file: what it can end with.  "ok" and
\* "partial" leave the destination file, "partial" with an error (io.Copy or
\* chmod failed after the file was created)
ExtractOutcomes(name) ==
  LET lower == ToLower(name)
  IN IF ~isArchive(lower) THEN {"ok", "fail", "partial"}
     ELSE IF HasSuffix(lower, ".tar.gz") \/ HasSuffix(lower, ".tgz")
             \/ HasSuffix(lower, ".zip")
       THEN {"ok", "notfound", "fail", "partial"}
       ELSE {"unsupported"}

ExtractMsg(o) ==
  CASE o = "notfound" -> "binary not found in release archive"
    [] o = "unsupported" -> "unsupported format"
    [] OTHER -> "i/o error"

\* tryBinaryInstall that does not look at the error of ExtractBinary
ExtractNextIgnoringError(o, h) ==
  IF h.goos = "darwin" /\ BrewIsInstalled(h) THEN "InstallerHomebrew"
  ELSE "InstallBinary"

\* tryBinaryInstall after ExtractBinary ended with outcome o
ExtractNext(o, h) ==
  IF o # "ok" THEN "InstallUpdateRet"
  ELSE IF h.goos = "darwin" /\ BrewIsInstalled(h) THEN "InstallerHomebrew"
  ELSE "InstallBinary"

\* installer.tryBinaryInstall, second part: ExtractBinary; on an error the
\* deferred os.Remove(assetPath) runs
ExtractBinary ==
  /\ UNCHANGED <<tuiVars, callVars>>
  /\ pc = "ExtractBinary"
  /\ \E o \in ExtractOutcomes(assetPath) :
       LET dest == selected.BinaryName
           written == IF o \in {"ok", "partial"} THEN tmp \cup {dest} ELSE tmp
       IN /\ log' = Append(log, Ev("extract", "installer.tryBinaryInstall", assetPath, o = "ok"))
          /\ IF ExtractNext(o, host) = "InstallUpdateRet"
               THEN /\ BinaryFails(ExtractMsg(o))
                    /\ tmp' = written \ {assetPath}
                    /\ assetPath' = <<>>
                    /\ UNCHANGED binaryPath
               ELSE /\ binaryPath' = dest
                    /\ tmp' = written
                    /\ pc' = ExtractNext(o, host)
                    /\ UNCHANGED <<assetPath, errs, iuRes>>
  /\ UNCHANGED <<host, disk, cfg, method, rel, mgr, run, selected, pkgPath, bins,
                 retErr, exitCode>>

\* the deferred os.Remove(binaryPath) and os.Remove(assetPath) of tryBinaryInstall
RunDefers ==
  /\ tmp' = tmp \ {binaryPath, assetPath}
  /\ assetPath' = <<>>
  /\ binaryPath' = <<>>

\* installer.tryBinaryInstall on macOS with brew: installer.tryHomebrewInstall
\* (`brew search`, `brew install`) before the binary is placed
InstallerHomebrew ==
  /\ UNCHANGED <<tuiVars, callVars>>
  /\ pc = "InstallerHomebrew"
  /\ \E o \in {"ok", "searchfail", "installfail"} :
       /\ log' = log
            \o <<Ev("tryhomebrew", "installer.tryHomebrewInstall", selected.BinaryName, TRUE),
                 Ev("brewsearch", "installer.tryHomebrewInstall", selected.BinaryName,
                    o # "searchfail")>>
            \o (IF o = "searchfail" THEN <<>>
                ELSE <<Ev("brewinstall", "installer.tryHomebrewInstall",
                          selected.BinaryName, o = "ok")>>)
       /\ IF o = "ok"
            THEN /\ iuRes' = [ok |-> TRUE, Method |-> "homebrew", Path |-> NoPath,
                              err |-> NoErr]
                 /\ pc' = "InstallUpdateRet"
                 /\ RunDefers
                 /\ UNCHANGED errs
            ELSE /\ errs' = Append(errs, Err("homebrew",
                               IF o = "searchfail" THEN "no formula found"
                               ELSE "brew install failed"))
                 /\ pc' = "InstallBinary"
                 /\ UNCHANGED <<iuRes, tmp, assetPath, binaryPath>>
  /\ UNCHANGED <<host, disk, cfg, method, rel, mgr, run, selected, pkgPath, bins,
                 retErr, exitCode>>

\* binary.InstallBinary: "written" ends with an error after the target file was
\* written (sudo cp succeeded and sudo chmod failed; os.WriteFile failed midway)
PlaceOutcomes == {"ok", "fail", "written"}

\* installer.installBinaryDirect / binary.InstallBinary: plan the path, write
\* the file; then the deferred removes of tryBinaryInstall
InstallBinary ==
  /\ UNCHANGED <<tuiVars, callVars>>
  /\ pc = "InstallBinary"
  /\ \E localBinExists \in BOOLEAN, pathEnv \in PathEnvs, o \in PlaceOutcomes :
       LET plan == determineInstallPath(selected.BinaryName, OptsMethod,
                                        localBinExists, pathEnv)
       IN /\ log' = Append(log, Ev("place", "installer.tryBinaryInstall", plan.path, o = "ok"))
          /\ bins' = IF o = "fail" THEN bins ELSE bins \cup {plan.path}
          /\ IF o = "ok"
               THEN /\ iuRes' = [ok |-> TRUE, Method |-> "binary", Path |-> plan.path,
                                 err |-> NoErr]
                    /\ pc' = "InstallUpdateRet"
                    /\ UNCHANGED errs
               ELSE BinaryFails(IF plan.sudo THEN "sudo install failed" ELSE "i/o error")
  /\ RunDefers
  /\ UNCHANGED <<host, disk, cfg, method, rel, mgr, run, selected, pkgPath,
                 retErr, exitCode>>

(* --------------------------------- manager: after a strategy returned *)

\* InstallApp / installWithMethod return: the record is marked, the error kept
Return(a, err) ==
  /\ cfg' = SetApp(IF err = NoErr THEN MarkInstalled(a) ELSE MarkFailed(a, err))
  /\ retErr' = err
  /\ pc' = "Save"

\* InstallUpdate returned to manager.tryPackageInstall or manager.tryBinaryInstall
InstallUpdateRet ==
  /\ UNCHANGED <<tuiVars, callVars>>
  /\ pc = "InstallUpdateRet"
  /\ iuRes' = NoResult
  /\ selected' = NoBinary
  /\ IF mgr = "package"
       THEN IF iuRes.ok
              THEN /\ Return(RecordPackage(app, rel), NoErr)
                   /\ UNCHANGED <<mgr, run>>
              ELSE \* the error is dropped; Homebrew on macOS, else the binary strategy
                   /\ mgr' = AfterPackageFailed(host)
                   /\ IF AfterPackageFailed(host) = "homebrew"
                        THEN pc' = "ManagerHomebrew" /\ UNCHANGED run
                        ELSE /\ run' = run + 1
                             /\ pc' = InstallUpdateEntry(OptsForceMethod, Auto)
                   /\ UNCHANGED <<cfg, retErr>>
       ELSE /\ IF iuRes.ok
                 THEN Return(RecordBinary(app, rel, iuRes), NoErr)
                 ELSE Return(app, iuRes.err)
            /\ UNCHANGED <<mgr, run>>
  /\ UNCHANGED <<host, disk, method, rel, pkgPath, assetPath, binaryPath, tmp, bins,
                 log, errs, exitCode>>

\* manager.tryHomebrewInstall: IsInstalled, SearchFormula, InstallOfficial,
\* GetInstalledVersion; then InstallApp (Auto) or installWithMethod goes on
ManagerHomebrew ==
  /\ UNCHANGED <<tuiVars, callVars>>
  /\ pc = "ManagerHomebrew"
  /\ \E o \in IF BrewIsInstalled(host)
                THEN {"ok", "ok_noversion", "searchfail", "installfail"}
                ELSE {"notinstalled"} :
       LET msg == CASE o = "notinstalled" -> "homebrew not installed"
                    [] o = "searchfail" -> "no formula found"
                    [] OTHER -> "brew install failed"
           good == o \in {"ok", "ok_noversion"}
           fn == "manager.tryHomebrewInstall"
       IN /\ log' = log
               \o <<Ev("tryhomebrew", fn, <<app.Name>>, TRUE)>>
               \o (IF o = "notinstalled" THEN <<>>
                   ELSE <<Ev("brewsearch", fn, <<app.Name>>, o # "searchfail")>>)
               \o (IF o \in {"notinstalled", "searchfail"} THEN <<>>
                   ELSE <<Ev("brewinstall", fn, <<app.Name>>, good)>>)
          /\ errs' = IF good THEN errs ELSE Append(errs, Err("homebrew", msg))
          /\ IF good
               THEN /\ Return(RecordHomebrew(app, IF o = "ok" THEN "1.2.0" ELSE ""), NoErr)
                    /\ UNCHANGED <<mgr, run>>
               ELSE IF method = Homebrew
                 THEN /\ Return(app, Err("homebrew", msg))
                      /\ UNCHANGED <<mgr, run>>
                 ELSE /\ mgr' = "binary"
                      /\ run' = run + 1
                      /\ pc' = InstallUpdateEntry(OptsForceMethod, Auto)
                      /\ UNCHANGED <<cfg, retErr>>
  /\ UNCHANGED <<host, disk, method, rel, selected, pkgPath, assetPath, binaryPath,
                 iuRes, tmp, bins, exitCode>>

\* handleAdd after InstallApp returned: config.Save(cfg), whose error is not
\* looked at (written: the file was written), and the exit status
Save ==
  /\ UNCHANGED <<tuiVars, callVars>>
  /\ pc = "Save"
  /\ \E looks \in LooksFor(cfg), written \in BOOLEAN :
       disk' = IF written THEN SaveApps(cfg, looks) ELSE disk
  /\ Exit(IF retErr = NoErr THEN 0 ELSE 1)
  /\ UNCHANGED <<host, tmp, bins>>

Next ==
  \/ HandleAdd
  \/ GetRelease
  \/ InstallApp
  \/ DownloadUpdate
  \/ RunInstallCmd
  \/ BinaryDownload
  \/ ExtractBinary
  \/ InstallerHomebrew
  \/ InstallBinary
  \/ InstallUpdateRet
  \/ ManagerHomebrew
  \/ Save

Spec == Init /\ [][Next]_vars

(* ======================================================= terminal UI *)
(* tui.Model and its Update function (Bubble Tea).  A tea.Cmd runs in a    *)
(* goroutine of its own and its message is handled by Update later: a      *)
(* command of `cmds` first runs (its message is kept with it) and is then  *)
(* taken out by the handler of its message.  Window sizes and the quit     *)
(* key are left out.                                                       *)

\* commands in flight
MaxInFlight == 2

\* tracked records
MaxTracked == 2

SelfRepoURL == "https://github.com/timappledotcom/autonomix-cli"
version == "v0.3.0"

NoApp == NewApp("", "", "", "")
NoStatus == <<>>
Installing(name) == <<"Installing ", name, "...">>
Verifying == <<"Verifying installation...">>
NoError == ""

\* tui.normalizeVersion: the "v" prefix and a package revision are dropped
normalizeVersion(v) == IF v = "1.0.0-1" THEN "1.0.0" ELSE TrimPrefixV(v)

\* what is typed into the add view
TuiInputs == {"https://github.com/o/app", "github.com/o/app/releases"}

\* manager.cleanRepoURL: "https://github.com/" and the first two segments of
\* what follows "github.com/"
cleanRepoURL(url) ==
  IF url = "github.com/o/app/releases" THEN "https://github.com/o/app" ELSE url

\* main: the record of autonomix-cli itself is tracked before the UI starts
EnsureSelfTracked(apps) ==
  IF \E i \in 1..Len(apps) : apps[i].RepoURL = SelfRepoURL
    THEN LET k == CHOOSE i \in 1..Len(apps) :
                    /\ apps[i].RepoURL = SelfRepoURL
                    /\ \A j \in 1..(i - 1) : apps[j].RepoURL # SelfRepoURL
         IN [apps EXCEPT ![k].Version = version]
    ELSE Append(apps, NewApp("autonomix-cli", SelfRepoURL, "", version))

\* a tea.Cmd in flight: its function, its arguments (of an app.config value
\* the name and the URL, which is all the commands read), and the message it
\* returned once it ran
Cmd(fn, name, url, index) ==
  [cmd |-> fn, name |-> name, url |-> url, index |-> index, done |-> FALSE,
   err |-> NoError, res |-> NoApp, tag |-> ""]

Done(c, err, res, tag) == [c EXCEPT !.done = TRUE, !.err = err, !.res = res, !.tag = tag]

RemoveAt(s, i) == SubSeq(s, 1, i - 1) \o SubSeq(s, i + 1, Len(s))

\* system.CheckInstalled on a machine that holds what this session installed:
\* the version the package manager reports
CheckInstalled(name, onMachine) == IF name \in onMachine THEN "1.0.0-1" ELSE ""

\* the answers a Save gets while the UI runs: the own executable is where it
\* was when the UI started, so a record of it that the first Save left without
\* a method is not found later either
SessionLooksFor(apps) ==
  {l \in LooksFor(apps) :
     \A i \in 1..Len(apps) : apps[i].RepoURL = SelfRepoURL => l[i] = "notfound"}

InFlight(fn) == {i \in 1..Len(cmds) : cmds[i].cmd = fn}

\* the index is one the list has an item for
ValidIndex(index) == index >= 0 /\ index < Len(list)

\* main, NewModel and Model.Init on a fresh store: the own record is saved,
\* and an update check is started for every tracked record
TuiInit ==
  /\ host = [goos |-> "linux", goarch |-> "amd64", sysType |-> "deb", brew |-> FALSE]
  /\ \E looks \in LooksFor(EnsureSelfTracked(<<>>)) :
       /\ cfg = SaveApps(EnsureSelfTracked(<<>>), looks)
       /\ disk = cfg
  /\ list = cfg
  /\ cursor = 0
  /\ state = "viewList"
  /\ status = NoStatus
  /\ uiErr = NoError
  /\ deleteIndex = 0
  /\ selectedApp = NoApp
  /\ cmds = [i \in 1..Len(cfg) |-> Cmd("checkUpdateCmd", cfg[i].Name, cfg[i].RepoURL, i - 1)]
  /\ installed = {}
  /\ pc = "tui"
  /\ method = Auto
  /\ rel = NoRelease
  /\ mgr = ""
  /\ run = 0
  /\ selected = NoBinary
  /\ pkgPath = <<>>
  /\ assetPath = <<>>
  /\ binaryPath = <<>>
  /\ iuRes = NoResult
  /\ tmp = {}
  /\ bins = {}
  /\ log = <<>>
  /\ errs = <<>>
  /\ retErr = NoErr
  /\ exitCode = 0
  /\ CallIdle

(* ------------------------------------------------------ key messages *)

\* viewList, any key while an error is shown: the error is cleared
KeyClearsError ==
  /\ state = "viewList" /\ uiErr # NoError
  /\ uiErr' = NoError
  /\ UNCHANGED <<host, disk, cfg, cliVars, callVars, list, cursor, state, status,
                 deleteIndex, selectedApp, cmds, installed>>

\* viewList, "enter": install or update the selected item when a release is
\* known and differs from what is installed, else open the browser
KeyEnter ==
  /\ state = "viewList" /\ uiErr = NoError
  /\ ValidIndex(cursor)
  /\ Len(cmds) < MaxInFlight
  /\ LET selectedItem == list[cursor + 1]
         vInstalled == normalizeVersion(selectedItem.Version)
         vLatest == normalizeVersion(selectedItem.Latest)
     IN IF vLatest # "" /\ (vInstalled = "" \/ vLatest # vInstalled)
          THEN /\ status' = Installing(selectedItem.Name)
               /\ cmds' = Append(cmds, Cmd("installAppCmd", selectedItem.Name, selectedItem.RepoURL, cursor))
          ELSE UNCHANGED <<status, cmds>>
  /\ UNCHANGED <<host, disk, cfg, cliVars, callVars, list, cursor, state, uiErr,
                 deleteIndex, selectedApp, installed>>

\* viewList, "a"
KeyA ==
  /\ state = "viewList" /\ uiErr = NoError
  /\ state' = "viewAdd"
  /\ UNCHANGED <<host, disk, cfg, cliVars, callVars, list, cursor, status, uiErr,
                 deleteIndex, selectedApp, cmds, installed>>

\* viewList, "d"
KeyD ==
  /\ state = "viewList" /\ uiErr = NoError
  /\ ValidIndex(cursor)
  /\ deleteIndex' = cursor
  /\ state' = "viewConfirmDelete"
  /\ UNCHANGED <<host, disk, cfg, cliVars, callVars, list, cursor, status, uiErr,
                 selectedApp, cmds, installed>>

\* viewList, "u": check the selected item for an update
KeyU ==
  /\ state = "viewList" /\ uiErr = NoError
  /\ ValidIndex(cursor)
  /\ Len(cmds) < MaxInFlight
  /\ cmds' = Append(cmds, Cmd("checkUpdateCmd", list[cursor + 1].Name, list[cursor + 1].RepoURL, cursor))
  /\ UNCHANGED <<host, disk, cfg, cliVars, callVars, list, cursor, state, status, uiErr,
                 deleteIndex, selectedApp, installed>>

\* viewList, a navigation key, handled by m.list.Update
KeyMove ==
  /\ state = "viewList" /\ uiErr = NoError
  /\ \E c \in 0..(Len(list) - 1) : c # cursor /\ cursor' = c
  /\ UNCHANGED <<host, disk, cfg, cliVars, callVars, list, state, status, uiErr,
                 deleteIndex, selectedApp, cmds, installed>>

\* viewAdd, Enter: a URL starts checkRepoArgCmd, an empty input goes back
AddEnter ==
  /\ state = "viewAdd"
  /\ \E url \in TuiInputs \cup {""} :
       IF url # ""
         THEN /\ Len(cmds) < MaxInFlight
              /\ Len(cfg) + Cardinality(InFlight("checkRepoArgCmd")) < MaxTracked
              /\ cmds' = Append(cmds, Cmd("checkRepoArgCmd", "", url, 0))
              /\ UNCHANGED state
         ELSE /\ state' = "viewList"
              /\ UNCHANGED cmds
  /\ UNCHANGED <<host, disk, cfg, cliVars, callVars, list, cursor, status, uiErr,
                 deleteIndex, selectedApp, installed>>

\* viewAdd, Esc
AddEsc ==
  /\ state = "viewAdd"
  /\ state' = "viewList"
  /\ UNCHANGED <<host, disk, cfg, cliVars, callVars, list, cursor, status, uiErr,
                 deleteIndex, selectedApp, cmds, installed>>

\* viewConfirmDelete, "d": uninstall by the recorded method, drop the record,
\* config.Save, drop the item.  The list keeps its cursor or moves it onto
\* the last item.
DeleteConfirmed ==
  /\ state = "viewConfirmDelete"
  /\ deleteIndex < Len(cfg)
  /\ LET a == cfg[deleteIndex + 1]
         uninstalls == (a.InstallMethod = InstallMethodHomebrew)
                       \/ (a.InstallMethod = InstallMethodBinary /\ a.BinaryPath # NoPath)
         rest == RemoveAt(cfg, deleteIndex + 1)
     IN /\ \E ok \in IF uninstalls THEN BOOLEAN ELSE {TRUE} :
             IF ok
               THEN /\ installed' = IF uninstalls THEN installed \ {a.Name} ELSE installed
                    /\ UNCHANGED uiErr
               ELSE /\ uiErr' = IF a.InstallMethod = InstallMethodHomebrew
                                  THEN "brew uninstall failed"
                                  ELSE "failed to remove binary"
                    /\ UNCHANGED installed
        /\ \E looks \in SessionLooksFor(rest) :
             /\ cfg' = SaveApps(rest, looks)
             /\ disk' = cfg'
        /\ list' = RemoveAt(list, deleteIndex + 1)
        /\ cursor' \in {cursor,
                        IF cursor >= Len(list) - 1 /\ cursor > 0 THEN cursor - 1 ELSE cursor}
  /\ state' = "viewList"
  /\ UNCHANGED <<host, cliVars, callVars, status, deleteIndex, selectedApp, cmds>>

\* viewConfirmDelete, any other key
DeleteCancelled ==
  /\ state = "viewConfirmDelete"
  /\ state' = "viewList"
  /\ UNCHANGED <<host, disk, cfg, cliVars, callVars, list, cursor, status, uiErr,
                 deleteIndex, selectedApp, cmds, installed>>

(* ------------------------------------------------- commands (tea.Cmd) *)

\* checkRepoArgCmd: config.Load and manager.AddApp (the duplicate check on the
\* loaded store, GetLatestRelease, CheckInstalled, append, config.Save)
checkRepoArgCmd(i) ==
  /\ cmds[i].cmd = "checkRepoArgCmd" /\ ~cmds[i].done
  /\ LET repoURL == cleanRepoURL(cmds[i].url)
     IN \/ \* config.Load or GetLatestRelease failed
           /\ cmds' = [cmds EXCEPT ![i] = Done(@, "failed to fetch release", NoApp, "")]
           /\ UNCHANGED disk
        \/ /\ AlreadyTracked(disk, repoURL)
           /\ cmds' = [cmds EXCEPT ![i] = Done(@, "repository already tracked", NoApp, "")]
           /\ UNCHANGED disk
        \/ /\ ~AlreadyTracked(disk, repoURL)
           /\ \E tag \in Tags,
                 ver \in {CheckInstalled(getRepoName(repoURL), installed)} :
                LET newApp == NewApp(getRepoName(repoURL), repoURL, tag, ver)
                    apps0 == Append(disk, newApp)
                IN \E looks \in SessionLooksFor(apps0) :
                     /\ disk' = SaveApps(apps0, looks)
                     /\ cmds' = [cmds EXCEPT ![i] = Done(@, NoError, newApp, tag)]
  /\ UNCHANGED <<host, cfg, cliVars, callVars, list, cursor, state, status, uiErr,
                 deleteIndex, selectedApp, installed>>

\* installAppCmd: GetLatestRelease, installer.InstallUpdate and, on macOS,
\* Homebrew; what it installs is on the machine afterwards
installAppCmd(i) ==
  /\ cmds[i].cmd = "installAppCmd" /\ ~cmds[i].done
  /\ \E ok \in BOOLEAN :
       IF ok
         THEN /\ installed' = installed \cup {cmds[i].name}
              /\ cmds' = [cmds EXCEPT ![i] = Done(@, NoError, NoApp, "")]
         ELSE /\ cmds' = [cmds EXCEPT ![i] = Done(@, "exit status 1", NoApp, "")]
              /\ UNCHANGED installed
  /\ UNCHANGED <<host, disk, cfg, cliVars, callVars, list, cursor, state, status, uiErr,
                 deleteIndex, selectedApp>>

\* checkUpdateCmd: GetLatestRelease
checkUpdateCmd(i) ==
  /\ cmds[i].cmd = "checkUpdateCmd" /\ ~cmds[i].done
  /\ \/ cmds' = [cmds EXCEPT ![i] = Done(@, "failed to fetch release", NoApp, "")]
     \/ \E tag \in Tags : cmds' = [cmds EXCEPT ![i] = Done(@, NoError, NoApp, tag)]
  /\ UNCHANGED <<host, disk, cfg, cliVars, callVars, list, cursor, state, status, uiErr,
                 deleteIndex, selectedApp, installed>>

(* ------------------------------------------------- command messages *)

\* Update, repoCheckedMsg
repoCheckedMsg(i) ==
  /\ cmds[i].cmd = "checkRepoArgCmd" /\ cmds[i].done
  /\ cmds' = RemoveAt(cmds, i)
  /\ state' = "viewList"
  /\ IF cmds[i].err # NoError
       THEN /\ uiErr' = cmds[i].err
            /\ UNCHANGED <<cfg, list>>
       ELSE /\ cfg' = Append(cfg, cmds[i].res)
            /\ list' = Append(list, cmds[i].res)
            /\ UNCHANGED uiErr
  /\ UNCHANGED <<host, disk, cliVars, callVars, cursor, status, deleteIndex, selectedApp,
                 installed>>

\* Update, updateCheckedMsg: the record at the index the command was started
\* with gets the tag, config.Save, the item at that index is replaced
updateCheckedMsg(i) ==
  /\ cmds[i].cmd = "checkUpdateCmd" /\ cmds[i].done
  /\ cmds' = RemoveAt(cmds, i)
  /\ LET idx == cmds[i].index
     IN IF cmds[i].err = NoError /\ idx >= 0 /\ idx < Len(cfg)
          THEN LET apps1 == [cfg EXCEPT ![idx + 1].Latest = cmds[i].tag]
               IN \E looks \in SessionLooksFor(apps1) :
                    /\ cfg' = SaveApps(apps1, looks)
                    /\ disk' = cfg'
                    /\ list' = IF idx < Len(list)
                                 THEN [list EXCEPT ![idx + 1] = cfg'[idx + 1]]
                                 ELSE list
          ELSE UNCHANGED <<cfg, disk, list>>
  /\ UNCHANGED <<host, cliVars, callVars, cursor, state, status, uiErr, deleteIndex,
                 selectedApp, installed>>

\* Update, installFinishedMsg: on success the installed version is looked up
\* again only for m.selectedApp
installFinishedMsg(i) ==
  /\ cmds[i].cmd = "installAppCmd" /\ cmds[i].done
  /\ IF cmds[i].err # NoError
       THEN /\ status' = NoStatus
            /\ uiErr' = "installation failed"
            /\ cmds' = RemoveAt(cmds, i)
       ELSE /\ uiErr' = NoError
            /\ status' = Verifying
            /\ cmds' = IF selectedApp # NoApp
                         THEN Append(RemoveAt(cmds, i),
                                     Cmd("recheckInstalledWithDelayCmd", selectedApp.Name,
                                         selectedApp.RepoURL, 0))
                         ELSE RemoveAt(cmds, i)
  /\ UNCHANGED <<host, disk, cfg, cliVars, callVars, list, cursor, state, deleteIndex,
                 selectedApp, installed>>

TuiNext ==
  \/ KeyClearsError
  \/ KeyEnter
  \/ KeyA
  \/ KeyD
  \/ KeyU
  \/ KeyMove
  \/ AddEnter
  \/ AddEsc
  \/ DeleteConfirmed
  \/ DeleteCancelled
  \/ \E i \in 1..Len(cmds) : checkRepoArgCmd(i)
  \/ \E i \in 1..Len(cmds) : installAppCmd(i)
  \/ \E i \in 1..Len(cmds) : checkUpdateCmd(i)
  \/ \E i \in 1..Len(cmds) : repoCheckedMsg(i)
  \/ \E i \in 1..Len(cmds) : updateCheckedMsg(i)
  \/ \E i \in 1..Len(cmds) : installFinishedMsg(i)

TuiSpec == TuiInit /\ [][TuiNext]_vars

(* ============================== the functions of the engine on their own *)

\* the machines a function is called on: any GOOS and GOARCH of a Go build,
\* any preferred package type
CallHosts ==
  [goos : {"linux", "darwin", "windows"}, goarch : {"amd64", "arm64", "386"},
   sysType : {"deb", "rpm", "unknown"}, brew : {FALSE}]

\* the asset names a function is called with: "app", then an operating system
\* word, an architecture word and a file suffix, each of them optional, and
\* the names of checksum, signature and source files
CallNames ==
  LET part(w) == IF w = "" THEN <<>> ELSE <<"-", w>>
      suffix(s) == IF s = "" THEN <<>> ELSE <<s>>
  IN {<<"app">> \o part(os) \o part(arch) \o suffix(suf) :
        os \in {"", "linux", "Linux", "darwin", "macos", "osx", "windows"},
        arch \in {"", "amd64", "AMD64", "x86_64", "x64", "arm64", "aarch64",
                  "armv8", "386", "all", "noarch", "any"},
        suf \in {"", ".tar.gz", ".tgz", ".zip", ".gz", ".deb", ".rpm",
                 ".pkg.tar.zst", ".flatpak", ".snap", ".AppImage", ".apk",
                 ".dmg", ".pkg", ".sig", ".asc", ".txt"}}
     \cup {<<"checksums", ".txt">>, <<"app", ".", "sha256">>,
           <<"app", ".", "sha512">>, <<"source", ".tar.gz">>,
           <<"app", "-", "src", ".zip">>,
           <<"app", "-", "installer", "_", "arm64", ".deb">>}

\* the assets of the releases a resolver is called with
CallAssets ==
  {RawLinuxAmd64, TarLinuxAmd64, TarDarwinArm64, DebAmd64,
   <<"app", "-", "linux", "-", "amd64", ".tgz">>,
   <<"app", "-", "linux", "-", "amd64", ".zip">>,
   <<"app", "-", "linux", "-", "amd64", ".gz">>,
   <<"app", "-", "linux", "-", "amd64", ".flatpak">>,
   <<"app", "-", "arm64", ".deb">>,
   <<"app", "-", "installer", "_", "arm64", ".deb">>,
   <<"app", "-", "x86_64", ".rpm">>,
   <<"app", "-", "noarch", ".rpm">>}

\* the entries of an archive: the type of the entry, whether its mode has an
\* executable bit, the base name of its path and its bytes
Entries ==
  [type : {"reg", "dir", "symlink"}, exec : BOOLEAN,
   base : {<<"app">>, <<"app", "-", "linux", "-", "amd64">>, <<"README">>},
   data : {<<1>>, <<2>>}]

\* copyFile(src, dst) in the directory dir (file name to content): src is
\* opened, dst is created or truncated, then the bytes of src are copied
copyFile(dir, src, dst) ==
  LET created == (dst :> <<>>) @@ dir
  IN (dst :> created[src]) @@ dir

\* the scan of extractFromTarGz and extractFromZip, which passes over the
\* entries of the types in skipped: the first other entry with an executable
\* bit and a matching base name is written to TempDir/expectedName
extractFirst(dir, archivePath, expectedName, skipped) ==
  LET entries == dir[archivePath]
      matches(e) ==
        /\ e.type \notin skipped
        /\ e.exec
        /\ \/ e.base = expectedName
           \/ /\ Len(e.base) >= Len(expectedName)
              /\ SubSeq(e.base, 1, Len(expectedName)) = expectedName
      found == {i \in 1..Len(entries) : matches(entries[i])}
      destPath == TmpPath(expectedName)
  IN IF found = {}
       THEN [path |-> NoPath, err |-> "binary not found in release archive",
             names |-> expectedName, dir |-> dir]
       ELSE LET i == CHOOSE k \in found : \A j \in found : k <= j
            IN [path |-> destPath, err |-> "", names |-> <<>>,
                dir |-> (destPath :> entries[i].data) @@ dir]

\* ExtractBinary that copies a file of a format it does not know
ExtractBinaryInCopying(dir, file, expectedName) ==
  [path |-> TmpPath(expectedName), err |-> "", names |-> <<>>,
   dir |-> copyFile(dir, file, TmpPath(expectedName))]

\* ExtractBinary(assetPath, expectedName) in the directory dir
ExtractBinaryIn(dir, file, expectedName) ==
  LET lower == ToLower(file)
      destPath == TmpPath(expectedName)
      notRegular == {"dir", "symlink"}
      isDir == {"dir"}
  IN IF ~isArchive(lower)
       THEN [path |-> destPath, err |-> "", names |-> <<>>,
             dir |-> copyFile(dir, file, destPath)]
       ELSE IF HasSuffix(lower, ".tar.gz") \/ HasSuffix(lower, ".tgz")
         THEN extractFirst(dir, file, expectedName, notRegular)
         ELSE IF HasSuffix(lower, ".zip")
           THEN extractFirst(dir, file, expectedName, isDir)
           ELSE [path |-> NoPath, err |-> "unsupported format", names |-> file,
                 dir |-> dir]

\* the machines that hold up to k packages: which probe finds which name
Machines[k \in 0..(MaxFound + 1)] ==
  IF k = 0 THEN {{}}
  ELSE Machines[k - 1]
       \cup {s \cup {x} :
               s \in Machines[k - 1],
               x \in [probe : {"snap", "flatpak", "dpkg", "pacman", "rpm", "PATH"},
                      name : {<<"app">>, <<"App">>, <<"my", "-", "app">>,
                              <<"app", "-">>, <<"tool">>}]}

\* what a function is called with: an asset name, a release whose assets
\* are all different and at most MaxListed, a downloaded asset with its
\* content (bytes, or at most MaxEntries entries when it is an archive), or
\* an install request under an environment (PATH as its segments), or a
\* release to install whose selected asset has the content body, or the
\* tracked records (no repository twice) with a URL to add, or a name to
\* probe for on a machine that holds up to MaxFound packages, or the stored
\* records with the name given to `update`, or the store that earlier
\* `add` commands left (no repository twice) when the program starts its UI
CallArgs ==
  [kind : {"name"}, name : CallNames]
  \cup [kind : {"file"},
        name : {RawLinuxAmd64, <<"app", "_", "linux", "_", "amd64">>,
                <<"app", "-", "linux", "-", "amd64", ".gz">>},
        body : {<<1>>, <<2>>}]
  \cup [kind : {"file"},
        name : {TarLinuxAmd64, <<"app", "-", "linux", "-", "amd64", ".tgz">>,
                <<"app", "-", "linux", "-", "amd64", ".zip">>},
        body : UNION {[1..n -> Entries] : n \in 0..MaxEntries}]
  \cup [kind : {"plan"}, appName : {<<"app">>},
        method : {Auto, SystemPath, UserPath, Homebrew, AutonomixPath},
        localBinExists : BOOLEAN,
        pathEnv : PathEnvs \cup {<<>>, <<LocalBin, "/usr/bin">>,
                                  <<"/usr/bin", "$HOME/.local/bin/">>}]
  \cup [kind : {"install"},
        release : [TagName : Tags,
                   Assets : {<<DebAmd64, TarLinuxAmd64>>,
                             <<DebAmd64,
                               <<"app", "_", "1.0.0", "_", "linux", "_", "amd64",
                                 ".tar.gz">>>>,
                             <<DebAmd64,
                               <<"app", "-", "linux", "-", "amd64", ".gz">>,
                               <<"app", "-", "linux", "-", "x86_64", ".gz">>>>}],
        body : UNION {[1..n -> {e \in Entries :
                                  /\ e.type = "reg"
                                  /\ e.base \in {<<"app">>, <<"README">>}
                                  /\ e.data = <<1>>}]
                      : n \in 0..MaxEntries},
        localBinExists : BOOLEAN,
        pathEnv : {<<"/usr/bin">>, <<"/usr/bin", LocalBin>>}]
  \cup [kind : {"add"},
        apps : UNION {{[i \in 1..n |-> NewApp(getRepoName(s[i]), s[i], "v1.0.0", "")] :
                         s \in {t \in [1..n -> Urls] :
                                  \A i, j \in 1..n : i # j => ~EqualFold(t[i], t[j])}}
                      : n \in 0..MaxTracked},
        repoURL : Urls \cup TuiInputs]
  \cup [kind : {"update"},
        apps : UNION {{[i \in 1..n |-> NewApp(getRepoName(s[i]), s[i], "v1.0.0", v[i])] :
                         s \in {t \in [1..n -> Urls] :
                                  \A i, j \in 1..n : i # j => ~EqualFold(t[i], t[j])},
                         v \in [1..n -> {"", "0.9.0"}]}
                      : n \in 0..MaxTracked},
        name : {"app", "App", "tool"}]
  \cup [kind : {"start"},
        apps : UNION {{[i \in 1..n |-> NewApp(getRepoName(s[i]), s[i], "v1.0.0", v[i])] :
                         s \in {t \in [1..n -> {"https://github.com/o/app",
                                                "https://github.com/timappledotcom/autonomix-cli",
                                                "https://github.com/TimAppleDotCom/autonomix-cli"}] :
                                  \A i, j \in 1..n : i # j => ~EqualFold(t[i], t[j])},
                         v \in [1..n -> {"", "v0.3.0"}]}
                      : n \in 0..MaxTracked}]
  \cup UNION {[kind : {"probe"}, appName : {n},
               found : Machines[MaxFound]]
              : n \in {<<"app">>, <<"App">>, <<"My", " ", "App">>,
                       <<"app", "_", "cli">>, <<"App", "-", "CLI">>}}
  \cup [kind : {"release"},
        release : [TagName : Tags,
                   Assets : UNION {{s \in [1..n -> CallAssets] :
                                      \A i, j \in 1..n : i # j => s[i] # s[j]}
                                   : n \in 0..MaxListed}]]

\* one input, no function called yet
CallInit ==
  /\ arg \in CallArgs
  /\ ret = [fn |-> "", out |-> <<>>]
  /\ host \in {h \in CallHosts :
                  /\ arg.kind = "name" => h.sysType = "unknown"
                  /\ arg.kind = "release" =>
                       h.goos # "windows" /\ h.goarch # "386"
                  /\ arg.kind = "install" =>
                       /\ h.goos = "linux"
                       /\ h.goarch = "amd64"
                  /\ arg.kind \notin {"name", "release", "install"} =>
                       h = [goos |-> "linux", goarch |-> "amd64",
                            sysType |-> "unknown", brew |-> FALSE]}
  /\ disk = <<>>
  /\ cfg = <<>>
  /\ pc = "call"
  /\ method = Auto
  /\ rel = NoRelease
  /\ mgr = ""
  /\ run = 0
  /\ selected = NoBinary
  /\ pkgPath = <<>>
  /\ assetPath = <<>>
  /\ binaryPath = <<>>
  /\ iuRes = NoResult
  /\ tmp = {}
  /\ bins = {}
  /\ log = <<>>
  /\ errs = <<>>
  /\ retErr = NoErr
  /\ exitCode = 0
  /\ TuiIdle

\* binary.MatchesPlatform(assetName)
CallMatchesPlatform ==
  /\ arg.kind = "name"
  /\ ret' = [fn |-> "MatchesPlatform", out |-> MatchesPlatform(arg.name, host)]
  /\ UNCHANGED <<arg, host, disk, cfg, cliVars, tuiVars>>

\* binary.IsBinaryAsset(name)
CallIsBinaryAsset ==
  /\ arg.kind = "name"
  /\ ret' = [fn |-> "IsBinaryAsset", out |-> IsBinaryAsset(arg.name)]
  /\ UNCHANGED <<arg, host, disk, cfg, cliVars, tuiVars>>

\* installer.GetCompatibleAssets(release); the error message lists the keys
\* of the map availableTypes in the order the range over the map yields them,
\* which is any order
CallGetCompatibleAssets ==
  /\ arg.kind = "release"
  /\ LET r == GetCompatibleAssets(arg.release, host)
         n == Cardinality(r.types)
         orders == {s \in [1..n -> r.types] : \A i, j \in 1..n : i # j => s[i] # s[j]}
     IN \E typeNames \in orders :
          ret' = [fn |-> "GetCompatibleAssets",
                  out |-> [assets |-> r.assets, err |-> r.err, typeNames |-> typeNames]]
  /\ UNCHANGED <<arg, host, disk, cfg, cliVars, tuiVars>>

\* installer.tryBinaryInstall up to the selection: DetectBinaryAssets, then
\* the priority loop
CallSelect ==
  /\ arg.kind = "release"
  /\ LET binaries == DetectBinaryAssets(arg.release, host)
     IN ret' = [fn |-> "tryBinaryInstall",
                out |-> IF Len(binaries) = 0
                          THEN [err |-> "no binary assets found", selected |-> NoBinary]
                          ELSE [err |-> "", selected |-> SelectBinary(binaries)]]
  /\ UNCHANGED <<arg, host, disk, cfg, cliVars, tuiVars>>

\* installer.tryBinaryInstall after the download: the asset is the file
\* TempDir/asset.Name, and ExtractBinary is called with selected.BinaryName
CallExtractBinary ==
  /\ arg.kind = "file"
  /\ LET downloadPath == TmpPath(arg.name)
     IN ret' = [fn |-> "ExtractBinary",
                out |-> ExtractBinaryIn(downloadPath :> arg.body, downloadPath,
                                        GetBinaryName(arg.name))]
  /\ UNCHANGED <<arg, host, disk, cfg, cliVars, tuiVars>>

\* binary.determineInstallPath(appName, method)
CallDetermineInstallPath ==
  /\ arg.kind = "plan"
  /\ ret' = [fn |-> "determineInstallPath",
             out |-> determineInstallPath(arg.appName, arg.method,
                                          arg.localBinExists, arg.pathEnv)]
  /\ UNCHANGED <<arg, host, disk, cfg, cliVars, tuiVars>>

\* installer.InstallUpdate(release, nil) when every download, package
\* manager command and write succeeds: the package strategy, then the binary
\* strategy (selection, DownloadAsset, ExtractBinary, InstallBinary)
CallInstallUpdate ==
  /\ arg.kind = "install"
  /\ LET pkg == GetCompatibleAssets(arg.release, host)
         binaries == DetectBinaryAssets(arg.release, host)
         none == [Method |-> "", asset |-> <<>>, name |-> <<>>, err |-> "",
                  path |-> NoPath, method |-> "", sudo |-> FALSE, content |-> <<>>]
     IN ret' =
          [fn |-> "InstallUpdate",
           out |->
             IF pkg.err = "" /\ Len(pkg.assets) > 0 /\ GetInstallCmd(host).err = ""
               THEN [none EXCEPT !.Method = "package", !.asset = pkg.assets[1],
                                 !.path = TmpPath(pkg.assets[1])]
               ELSE IF Len(binaries) = 0
                 THEN [none EXCEPT !.err = "no binary assets found"]
                 ELSE
                   LET sel == SelectBinary(binaries)
                       downloadPath == TmpPath(sel.Asset)
                       ex == ExtractBinaryIn(downloadPath :> arg.body, downloadPath,
                                             sel.BinaryName)
                       plan == determineInstallPath(sel.BinaryName, Auto,
                                                    arg.localBinExists, arg.pathEnv)
                   IN IF ex.err # ""
                        THEN [none EXCEPT !.asset = sel.Asset, !.name = sel.BinaryName,
                                          !.err = ex.err]
                        ELSE [Method |-> "binary", asset |-> sel.Asset,
                              name |-> sel.BinaryName, err |-> "",
                              path |-> plan.path, method |-> plan.method,
                              sudo |-> plan.sudo, content |-> ex.dir[ex.path]]]
  /\ UNCHANGED <<arg, host, disk, cfg, cliVars, tuiVars>>

\* the probes of system.CheckInstalled in the order of the loop body, and
\* the package type each of them reports
ProbeOrder == <<"snap", "flatpak", "dpkg", "pacman", "rpm", "PATH">>

ProbeType(p) ==
  CASE p = "snap" -> "snap"
    [] p = "flatpak" -> "flatpak"
    [] p = "dpkg" -> "deb"
    [] p = "pacman" -> "pacman"
    [] p = "rpm" -> "rpm"
    [] p = "PATH" -> "unknown"

\* the candidate names of CheckInstalled, in the order it tries them
Candidates(appName) ==
  LET lower == ToLower(appName)
      kebab == [i \in 1..Len(lower) |->
                  IF lower[i] \in {" ", "_"} THEN "-" ELSE lower[i]]
      EndsWith(n, suffix) ==
        /\ Len(n) >= Len(suffix)
        /\ SubSeq(n, Len(n) - Len(suffix) + 1, Len(n)) = suffix
      RECURSIVE TrimSpace(_)
      TrimSpace(n) ==
        IF n = <<>> THEN n
        ELSE IF Head(n) = " " THEN TrimSpace(Tail(n))
        ELSE IF n[Len(n)] = " " THEN TrimSpace(SubSeq(n, 1, Len(n) - 1))
        ELSE n
      suffixes == <<(<<"-", "cli">>), (<<" ", "cli">>), (<<"_", "cli">>), (<<"cli">>)>>
      RECURSIVE Stripped(_)
      Stripped(k) ==
        IF k > Len(suffixes) THEN <<>>
        ELSE LET trimmed == TrimSpace(SubSeq(lower, 1, Len(lower) - Len(suffixes[k])))
             IN (IF EndsWith(lower, suffixes[k]) /\ trimmed # <<>>
                   THEN <<trimmed>> ELSE <<>>) \o Stripped(k + 1)
      candidates ==
        <<appName>>
        \o (IF lower # appName THEN <<lower>> ELSE <<>>)
        \o (IF kebab # lower /\ kebab # appName THEN <<kebab>> ELSE <<>>)
        \o Stripped(1)
      RECURSIVE Unique(_, _)
      Unique(k, seen) ==
        IF k > Len(candidates) THEN <<>>
        ELSE IF candidates[k] \in seen THEN Unique(k + 1, seen)
        ELSE <<candidates[k]>> \o Unique(k + 1, seen \cup {candidates[k]})
  IN Unique(1, {})

\* system.CheckInstalled(appName) on a machine where the probe p finds the
\* name n exactly when [probe |-> p, name |-> n] is in found; the version a
\* probe reports is the one of the package it found
CheckInstalledOn(appName, found) ==
  LET finalCandidates == Candidates(appName)
      hits == {c \in (1..Len(finalCandidates)) \X (1..Len(ProbeOrder)) :
                 /\ finalCandidates[c[1]] # <<>>
                 /\ [probe |-> ProbeOrder[c[2]], name |-> finalCandidates[c[1]]]
                      \in found}
  IN IF hits = {}
       THEN [ver |-> <<>>, type |-> "unknown", found |-> FALSE]
       ELSE LET h == CHOOSE x \in hits :
                       \A y \in hits :
                         x[1] < y[1] \/ (x[1] = y[1] /\ x[2] <= y[2])
            IN [ver |-> [probe |-> ProbeOrder[h[2]], name |-> finalCandidates[h[1]]],
                type |-> ProbeType(ProbeOrder[h[2]]),
                found |-> TRUE]

CallCheckInstalled ==
  /\ arg.kind = "probe"
  /\ ret' = [fn |-> "CheckInstalled",
             out |-> CheckInstalledOn(arg.appName, arg.found)]
  /\ UNCHANGED <<arg, host, disk, cfg, cliVars, tuiVars>>

\* `autonomix update <name>` on the store arg.apps: the exit code, the store
\* afterwards and the calls made on the way
CallHandleUpdate ==
  /\ arg.kind = "update"
  /\ LET named == {i \in 1..Len(arg.apps) : arg.apps[i].Name = arg.name}
     IN \/ \* config.Load fails
           ret' = [fn |-> "handleUpdate",
                   out |-> [exit |-> 1, disk |-> arg.apps,
                            calls |-> <<"config.Load">>]]
        \/ \* no record of that name
           /\ named = {}
           /\ ret' = [fn |-> "handleUpdate",
                      out |-> [exit |-> 1, disk |-> arg.apps,
                               calls |-> <<"config.Load">>]]
        \/ /\ named # {}
           /\ LET i == CHOOSE k \in named : \A j \in named : k <= j
                  apps0 == [arg.apps EXCEPT ![i].Version = arg.apps[i].Latest]
              IN \/ \E looks \in LooksFor(apps0) :
                      ret' = [fn |-> "handleUpdate",
                              out |-> [exit |-> 0, disk |-> SaveApps(apps0, looks),
                                       calls |-> <<"config.Load", "config.Save">>]]
                 \/ \* config.Save fails, and its error is dropped
                    ret' = [fn |-> "handleUpdate",
                            out |-> [exit |-> 0, disk |-> arg.apps,
                                     calls |-> <<"config.Load", "config.Save">>]]
  /\ UNCHANGED <<arg, host, disk, cfg, cliVars, tuiVars>>

\* main without arguments, up to tea.NewProgram: config.Load, the record of
\* the program itself, config.Save (its error is dropped); the records in
\* memory and in the store afterwards
CallMain ==
  /\ arg.kind = "start"
  /\ LET apps0 == EnsureSelfTracked(arg.apps)
     IN \/ \* config.Load fails
           ret' = [fn |-> "main", out |-> [exit |-> 1, cfg |-> <<>>, disk |-> arg.apps]]
        \/ \E looks \in LooksFor(apps0) :
             ret' = [fn |-> "main",
                     out |-> [exit |-> 0, cfg |-> SaveApps(apps0, looks),
                              disk |-> SaveApps(apps0, looks)]]
  /\ UNCHANGED <<arg, host, disk, cfg, cliVars, tuiVars>>

\* manager.AddApp(cfg, repoURL) with cfg.Apps = arg.apps, the store holding
\* the same records: what it returns, whether it fetched a release, and
\* cfg.Apps and the store afterwards
CallAddApp ==
  /\ arg.kind = "add"
  /\ LET repoURL == cleanRepoURL(arg.repoURL)
         out(err, res, created, fetched, apps, saved) ==
           [err |-> err, App |-> res, Created |-> created, fetched |-> fetched,
            apps |-> apps, disk |-> saved]
     IN IF AlreadyTracked(arg.apps, repoURL)
          THEN LET k == CHOOSE i \in 1..Len(arg.apps) :
                          /\ EqualFold(arg.apps[i].RepoURL, repoURL)
                          /\ \A j \in 1..(i - 1) :
                               ~EqualFold(arg.apps[j].RepoURL, repoURL)
               IN ret' = [fn |-> "AddApp",
                          out |-> out("repository already tracked", arg.apps[k],
                                      FALSE, FALSE, arg.apps, arg.apps)]
          ELSE \/ ret' = [fn |-> "AddApp",
                          out |-> out("failed to fetch release", NoApp, FALSE, TRUE,
                                      arg.apps, arg.apps)]
               \/ \E tag \in Tags, ver \in {"", "0.9.0"} :
                    LET newApp == NewApp(getRepoName(repoURL), repoURL, tag, ver)
                        apps0 == Append(arg.apps, newApp)
                    IN \/ ret' = [fn |-> "AddApp",
                                  out |-> out("failed to save config", NoApp, FALSE,
                                              TRUE, apps0, arg.apps)]
                       \/ \E looks \in LooksFor(apps0) :
                            ret' = [fn |-> "AddApp",
                                    out |-> out("", newApp, TRUE, TRUE,
                                                SaveApps(apps0, looks),
                                                SaveApps(apps0, looks))]
  /\ UNCHANGED <<arg, host, disk, cfg, cliVars, tuiVars>>

CallNext ==
  \/ CallMatchesPlatform
  \/ CallIsBinaryAsset
  \/ CallGetCompatibleAssets
  \/ CallSelect
  \/ CallExtractBinary
  \/ CallDetermineInstallPath
  \/ CallInstallUpdate
  \/ CallAddApp
  \/ CallHandleUpdate
  \/ CallMain
  \/ CallCheckInstalled

CallSpec == CallInit /\ [][CallNext]_vars

(* ================================================================ claims *)

\* manager.InstallApp has returned to handleAdd
Returned == pc = "Save"

\* the tracked records, in memory and persisted
Records ==
  {cfg[i] : i \in 1..Len(cfg)} \cup {disk[i] : i \in 1..Len(disk)}

\* C1: when InstallApp returns success, the recorded install method names the
\* strategy that performed the installation: package only if the package
\* manager command succeeded, homebrew only if `brew install` succeeded,
\* binary only if an extracted binary was written to the recorded path.
C1_MethodNamesStrategy ==
  (Returned /\ retErr = NoErr) =>
    /\ app.InstallMethod = InstallMethodPackage =>
         \E i \in 1..Len(log) : log[i].op = "pkgcmd" /\ log[i].ok
    /\ app.InstallMethod = InstallMethodHomebrew =>
         \E i \in 1..Len(log) : log[i].op = "brewinstall" /\ log[i].ok
    /\ app.InstallMethod = InstallMethodBinary =>
         \E i \in 1..Len(log) :
           log[i].op = "place" /\ log[i].ok /\ log[i].asset = app.BinaryPath

\* C2: with an explicit method exactly one strategy is attempted: a binary-path
\* method makes no package resolution, download or package-manager call, and
\* the Homebrew method downloads nothing.
C2_ExplicitMethodOneStrategy ==
  method # Auto =>
    /\ Cardinality({log[i].inst : i \in 1..Len(log)}) <= 1
    /\ method \in {SystemPath, UserPath, AutonomixPath} =>
         /\ \A i \in 1..Len(log) : log[i].inst # "package"
         /\ \A i \in 1..Len(errs) : errs[i].by # "package"
    /\ method = Homebrew => \A i \in 1..Len(log) : log[i].op # "download"

\* C3: in an Auto attempt the Homebrew strategy is never entered on a host that
\* is not macOS; on macOS it is entered exactly once, after the package
\* strategy failed and before the binary strategy starts.
C3_FallbackOrder ==
  LET entries == {i \in 1..Len(log) : log[i].op = "tryhomebrew"}
  IN (method = Auto /\ pc # "start") =>
       /\ host.goos # "darwin" =>
            \A i \in 1..Len(log) : log[i].inst # "homebrew"
       /\ host.goos = "darwin" =>
            /\ Cardinality(entries) <= 1
            /\ \A i \in entries :
                 /\ log[i].mgr = "homebrew"
                 /\ \A j \in 1..Len(log) : log[j].mgr = "binary" => i < j
            /\ (Returned /\ mgr # "package") => Cardinality(entries) = 1

\* C4: when every strategy of an Auto InstallApp fails, InstallApp returns the
\* error of the last attempted strategy, the binary strategy, and the record
\* gets installStatus failed and that error's non-empty message.
C4_LastErrorSurfaced ==
  (Returned /\ method = Auto /\ retErr # NoErr) =>
    /\ retErr.by = "binary"
    /\ retErr = errs[Len(errs)]
    /\ app.InstallStatus = StatusFailed
    /\ app.InstallError = retErr.msg
    /\ retErr.msg # ""

C4_Witness ==
  /\ Returned /\ method = Auto /\ retErr # NoErr
  /\ Len(errs) >= 3
  /\ errs[1].by = "package" /\ errs[1].msg # retErr.msg

C6_TempFilesRemoved == pc = "InstallUpdateRet" => tmp = {}

\* C7: in the terminal UI at most one install command per tracked application
\* is in flight: after Enter has started one, install key input is ignored
\* until its installFinishedMsg has been handled.
C7_OneInstallInFlight ==
  \A i, j \in InFlight("installAppCmd") : cmds[i].url = cmds[j].url => i = j

\* C8: once no command of the UI is in flight any more, every tracked
\* application that an install of this session put on the machine has its
\* installed version in its record, in memory and persisted, and the busy
\* status of the UI is cleared.
C8_InstallWrittenBack ==
  (pc = "tui" /\ cmds = <<>>) =>
    /\ status = NoStatus
    /\ \A r \in Records :
         r.Name \in installed => r.Version = CheckInstalled(r.Name, installed)

\* C9: within one InstallApp no asset is downloaded, installed or extracted
\* more than once.
C9_NoAssetTwice ==
  \A i, j \in 1..Len(log) :
    (i < j /\ log[i].op \in {"download", "pkgcmd", "extract"})
      => ~(log[i].op = log[j].op /\ log[i].asset = log[j].asset)

\* C10: within one run of the binary strategy, extraction starts only after
\* the selected asset was downloaded successfully, the binary is written only
\* after extraction succeeded, and a failed step is the last step of the run.
C10_BinaryStepsOrdered ==
  \A j \in 1..Len(log) :
    /\ log[j].op = "extract" =>
         \E i \in 1..(j - 1) :
           /\ log[i].op = "download" /\ log[i].fn = "installer.tryBinaryInstall"
           /\ log[i].run = log[j].run /\ log[i].ok /\ log[i].asset = log[j].asset
    /\ log[j].op = "place" =>
         \E i \in 1..(j - 1) :
           log[i].op = "extract" /\ log[i].run = log[j].run /\ log[i].ok
    /\ (log[j].fn = "installer.tryBinaryInstall" /\ ~log[j].ok) =>
         \A k \in (j + 1)..Len(log) :
           ~(log[k].run = log[j].run
             /\ log[k].fn \in {"installer.tryBinaryInstall",
                               "installer.tryHomebrewInstall"})

C10_Witness ==
  \E j \in 1..Len(log) : log[j].op = "place" /\ log[j].ok /\ log[j].run = 2

(* ------------------------------------- claims on the functions themselves *)

\* C11: MatchesPlatform(assetName) is true exactly when the lower-cased name
\* contains an operating system keyword of the host (darwin, macos, osx on
\* macOS; linux on Linux) and an architecture keyword of the host (amd64,
\* x86_64, x64; or arm64, aarch64, armv8), where a universal token (all,
\* noarch, any) satisfies the architecture check on its own.
C11_MatchesPlatformIff ==
  ret.fn = "MatchesPlatform" =>
    LET n == ToLower(arg.name)
        has(kws) == \E kw \in kws : Contains(n, kw)
        osKeywords ==
          CASE host.goos = "darwin" -> {"darwin", "macos", "osx"}
            [] host.goos = "linux" -> {"linux"}
            [] OTHER -> {}
        archKeywords ==
          CASE host.goarch = "amd64" -> {"amd64", "x86_64", "x64"}
            [] host.goarch = "arm64" -> {"arm64", "aarch64", "armv8"}
            [] OTHER -> {}
    IN ret.out = (has(osKeywords) /\ (has(archKeywords) \/ has({"all", "noarch", "any"})))

\* C12: MatchesPlatform fails closed: it returns false for every name when
\* the host is neither macOS nor Linux, and on a supported host it returns
\* false for every name that holds no architecture keyword and no universal
\* token.
C12_FailsClosed ==
  ret.fn = "MatchesPlatform" =>
    LET n == ToLower(arg.name)
        archWords == {"amd64", "x86_64", "x64", "arm64", "aarch64", "armv8",
                      "all", "noarch", "any"}
    IN /\ host.goos \notin {"darwin", "linux"} => ret.out = FALSE
       /\ (\A kw \in archWords : ~Contains(n, kw)) => ret.out = FALSE

\* a name that matches on Linux was refused on a Windows host
C12_Witness ==
  /\ ret.fn = "MatchesPlatform"
  /\ host.goos = "windows"
  /\ host.goarch = "amd64"
  /\ arg.name = <<"app", "-", "linux", "-", "amd64">>
  /\ ret.out = FALSE

C14_IsBinaryAssetIff ==
  ret.fn = "IsBinaryAsset" =>
    LET n == ToLower(arg.name)
        checksum ==
          \/ \E kw \in {"checksum", "sha256", "sha512"} : Contains(n, kw)
          \/ \E s \in {".sig", ".asc"} : HasSuffix(n, s)
        sources == HasPrefix(n, "source") \/ Contains(n, "src")
        native ==
          \E s \in {".deb", ".rpm", ".pkg.tar.zst", ".flatpak", ".snap", ".appimage"} :
            HasSuffix(n, s)
    IN /\ ret.out = ~(checksum \/ sources \/ native)
       /\ native => ret.out = FALSE

\* C15: GetCompatibleAssets returns exactly the assets, in release order,
\* whose detected type is the preferred package type of the host and whose
\* name holds an architecture keyword of the host or a universal token; no
\* asset of another package type or of a foreign architecture is returned.
C15_TypeAndArchitecture ==
  (ret.fn = "GetCompatibleAssets" /\ ret.out.err = "") =>
    LET has(a, kws) == \E kw \in kws : Contains(ToLower(a), kw)
        archOf(arch) ==
          CASE arch = "amd64" -> {"amd64", "x86_64", "x64"}
            [] arch = "arm64" -> {"arm64", "aarch64", "armv8"}
            [] OTHER -> {arch}
        claimed(a) ==
          /\ DetectType(a) = host.sysType
          /\ has(a, archOf(host.goarch)) \/ has(a, {"all", "noarch", "any"})
        foreign(a) ==
          /\ ~has(a, archOf(host.goarch))
          /\ \E other \in {"amd64", "arm64", "386"} \ {host.goarch} : has(a, archOf(other))
        got == ret.out.assets
    IN /\ got = SelectSeq(arg.release.Assets, claimed)
       /\ \A i \in 1..Len(got) : DetectType(got[i]) = host.sysType /\ ~foreign(got[i])

\* C16: when no asset of the release matches the preferred package type and
\* the architecture but at least one matches the type alone,
\* GetCompatibleAssets returns an error, never an empty list without an error
\* and never another asset in its place, and the error lists the other
\* package types seen in the release.
C16_NoArchitectureIsAnError ==
  LET assets == arg.release.Assets
      ofType(a) == DetectType(a) = host.sysType
      ofArch(a) == \E kw \in ArchKeywords(host.goarch) : Contains(ToLower(a), kw)
      seen == {DetectType(assets[i]) : i \in 1..Len(assets)} \ {"unknown", host.sysType}
  IN (/\ ret.fn = "GetCompatibleAssets"
      /\ host.sysType # "unknown"
      /\ \E i \in 1..Len(assets) : ofType(assets[i])
      /\ \A i \in 1..Len(assets) : ~(ofType(assets[i]) /\ ofArch(assets[i])))
     => /\ ret.out.err # ""
        /\ ret.out.assets = <<>>
        /\ \A t \in seen : \E k \in 1..Len(ret.out.typeNames) : ret.out.typeNames[k] = t

\* a deb host of amd64, a release with an arm64 .deb and an .rpm: the error
\* names rpm
C16_Witness ==
  /\ ret.fn = "GetCompatibleAssets"
  /\ host.sysType = "deb"
  /\ host.goarch = "amd64"
  /\ arg.release.Assets = <<<<"app", "-", "arm64", ".deb">>, <<"app", "-", "noarch", ".rpm">>>>
  /\ ret.out.err # ""
  /\ \E k \in 1..Len(ret.out.typeNames) : ret.out.typeNames[k] = "rpm"

\* C17: asset resolution is deterministic: two calls of GetCompatibleAssets,
\* or of DetectBinaryAssets with the priority selection, on the same asset
\* list and the same host yield the same result: the same assets in the same
\* order, or the same failure.
C17_SameInputSameResult ==
  [][(ret.fn \in {"GetCompatibleAssets", "tryBinaryInstall"} /\ ret'.fn = ret.fn)
       => ret'.out = ret.out]_vars

\* C18: for a .tar.gz, .tgz or .zip asset ExtractBinary copies out the first
\* entry, in archive order, that is a regular file, has an executable bit and
\* whose base name is the expected name or begins with it; later entries are
\* not examined.  When no entry matches it fails with "binary not found",
\* naming the expected executable.
C18_FirstMatchingEntry ==
  (/\ ret.fn = "ExtractBinary"
   /\ LowerTok(arg.name[Len(arg.name)]) \in {".tar.gz", ".tgz", ".zip"})
  => LET entries == arg.body
         expected == GetBinaryName(arg.name)
         claimed(e) ==
           /\ e.type = "reg"
           /\ e.exec
           /\ Len(e.base) >= Len(expected)
           /\ SubSeq(e.base, 1, Len(expected)) = expected
         matching == {i \in 1..Len(entries) : claimed(entries[i])}
     IN IF matching = {}
          THEN /\ ret.out.err = "binary not found in release archive"
               /\ ret.out.names = expected
          ELSE /\ ret.out.err = ""
               /\ \E i \in matching :
                    /\ \A j \in matching : i <= j
                    /\ ret.out.dir[ret.out.path] = entries[i].data

\* C19: a successful ExtractBinary returns a path whose content is, byte for
\* byte, the content of its source: the downloaded file when the asset is not
\* an archive, the matched entry when it is.  The downloaded file, named
\* after the asset, and the result, named after the expected executable, are
\* both in the temporary directory.
C19_ByteIdentity ==
  (ret.fn = "ExtractBinary" /\ ret.out.err = "") =>
    LET expected == GetBinaryName(arg.name)
        result == ret.out.dir[ret.out.path]
        matched(e) ==
          /\ e.type # "dir"
          /\ e.exec
          /\ Len(e.base) >= Len(expected)
          /\ SubSeq(e.base, 1, Len(expected)) = expected
    IN /\ ret.out.path = TmpPath(expected)
       /\ TmpPath(arg.name) \in DOMAIN ret.out.dir
       /\ IF LowerTok(arg.name[Len(arg.name)]) \in {".tar.gz", ".tgz", ".zip"}
            THEN \E i \in 1..Len(arg.body) :
                   matched(arg.body[i]) /\ result = arg.body[i].data
            ELSE result = arg.body

\* C20: asked for Auto, the path planner resolves to $HOME/.local/bin/<appName>
\* with UserPath and no elevation exactly when $HOME/.local/bin exists and is
\* a segment of PATH by exact equality; otherwise to /usr/local/bin/<appName>
\* with SystemPath and elevation.
C20_AutoPath ==
  (ret.fn = "determineInstallPath" /\ arg.method = Auto) =>
    LET onPath == \E i \in 1..Len(arg.pathEnv) : arg.pathEnv[i] = "$HOME/.local/bin"
    IN IF arg.localBinExists /\ onPath
         THEN ret.out = [path |-> <<"$HOME/.local/bin">> \o arg.appName,
                         method |-> UserPath, sudo |-> FALSE]
         ELSE ret.out = [path |-> <<"/usr/local/bin">> \o arg.appName,
                         method |-> SystemPath, sudo |-> TRUE]

\* the directory exists and is the second segment of PATH: the user path
C20_Witness ==
  /\ ret.fn = "determineInstallPath"
  /\ arg.method = Auto
  /\ arg.localBinExists
  /\ arg.pathEnv = <<"/usr/bin", "$HOME/.local/bin">>
  /\ ret.out.method = UserPath
  /\ ~ret.out.sudo

\* C21: for every requested method the path planner never returns Auto as the
\* resolved method, requires an elevated write exactly when the resolved
\* method is SystemPath, and for an explicit SystemPath, UserPath or
\* AutonomixPath request returns /usr/local/bin, $HOME/.local/bin or
\* $HOME/.autonomix/bin, whatever PATH and the filesystem are.
C21_FixedLocations ==
  ret.fn = "determineInstallPath" =>
    /\ ret.out.method # Auto
    /\ ret.out.sudo <=> ret.out.method = SystemPath
    /\ arg.method = SystemPath =>
         ret.out = [path |-> <<"/usr/local/bin">> \o arg.appName,
                    method |-> SystemPath, sudo |-> TRUE]
    /\ arg.method = UserPath =>
         ret.out = [path |-> <<"$HOME/.local/bin">> \o arg.appName,
                    method |-> UserPath, sudo |-> FALSE]
    /\ arg.method = AutonomixPath =>
         ret.out = [path |-> <<"$HOME/.autonomix/bin">> \o arg.appName,
                    method |-> AutonomixPath, sudo |-> FALSE]

\* UserPath was asked for with no ~/.local/bin on disk or on PATH, and the
\* plan is ~/.local/bin all the same
C21_Witness ==
  /\ ret.fn = "determineInstallPath"
  /\ arg.method = UserPath
  /\ ~arg.localBinExists
  /\ arg.pathEnv = <<"/usr/bin">>
  /\ ret.out.path = <<"$HOME/.local/bin">> \o arg.appName
  /\ ret.out.method = UserPath

\* C22: on a Linux amd64 host whose package type is not deb, for the release
\* with the assets app_1.0.0_amd64.deb and app_1.0.0_linux_amd64.tar.gz whose
\* archive holds the executable app, the install falls through to binary
\* mode, selects the .tar.gz, derives the executable name app, extracts it
\* and installs it to ~/.local/bin/app when that directory is on PATH,
\* otherwise to /usr/local/bin/app with elevation.
C22_EndToEnd ==
  LET targz == <<"app", "_", "1.0.0", "_", "linux", "_", "amd64", ".tar.gz">>
      userDir ==
        /\ arg.localBinExists
        /\ \E i \in 1..Len(arg.pathEnv) : arg.pathEnv[i] = "$HOME/.local/bin"
  IN (/\ ret.fn = "InstallUpdate"
      /\ host.sysType # "deb"
      /\ arg.release.Assets = <<DebAmd64, targz>>
      /\ \E i \in 1..Len(arg.body) :
           /\ arg.body[i].type = "reg"
           /\ arg.body[i].exec
           /\ arg.body[i].base = <<"app">>)
     => /\ ret.out.err = ""
        /\ ret.out.Method = "binary"
        /\ ret.out.asset = targz
        /\ ret.out.name = <<"app">>
        /\ ret.out.content = <<1>>
        /\ IF userDir
             THEN /\ ret.out.path = <<"$HOME/.local/bin", "app">>
                  /\ ~ret.out.sudo
             ELSE /\ ret.out.path = <<"/usr/local/bin", "app">>
                  /\ ret.out.sudo

\* C23: AddApp with a repository URL whose normalized form equals, ignoring
\* case, the URL of a tracked application returns the already-tracked error
\* together with the existing record, fetches no release, and leaves the
\* application list in memory and the persisted store unchanged.
C23_AlreadyTracked ==
  LET url ==
        IF arg.repoURL = "github.com/o/app/releases"
          THEN "https://github.com/o/app" ELSE arg.repoURL
      same(u) ==
        \/ u = url
        \/ {u, url} = {"https://github.com/o/app", "https://github.com/O/App"}
  IN (/\ ret.fn = "AddApp"
      /\ \E i \in 1..Len(arg.apps) : same(arg.apps[i].RepoURL))
     => /\ ret.out.err = "repository already tracked"
        /\ \E i \in 1..Len(arg.apps) :
             same(arg.apps[i].RepoURL) /\ ret.out.App = arg.apps[i]
        /\ ~ret.out.Created
        /\ ~ret.out.fetched
        /\ ret.out.apps = arg.apps
        /\ ret.out.disk = arg.apps

\* https://github.com/o/app is the second tracked record, and the release
\* page of the same repository, spelled without the scheme, was refused
C23_Witness ==
  /\ ret.fn = "AddApp"
  /\ Len(arg.apps) = 2
  /\ arg.apps[2].RepoURL = "https://github.com/O/App"
  /\ arg.repoURL = "github.com/o/app/releases"
  /\ ret.out.err = "repository already tracked"
  /\ ret.out.App = arg.apps[2]

\* C24: when an application is found by several probes under any of its
\* name variants, CheckInstalled reports the package type and the version of
\* the probe that comes first in the order snap, flatpak, dpkg, pacman, rpm,
\* PATH; it reports found = false only when no probe finds any variant.
C24_FirstProbeWins ==
  ret.fn = "CheckInstalled" =>
    LET variants == {Candidates(arg.appName)[i] : i \in 1..Len(Candidates(arg.appName))}
        finding == {i \in 1..6 :
                      \E n \in variants :
                        [probe |-> ProbeOrder[i], name |-> n] \in arg.found}
    IN IF finding = {}
         THEN ~ret.out.found
         ELSE LET first == CHOOSE i \in finding : \A j \in finding : i <= j
              IN /\ ret.out.found
                 /\ ret.out.type = ProbeType(ProbeOrder[first])
                 /\ ret.out.ver.probe = ProbeOrder[first]

\* C25: `update <name>` changes the installed version of the named record to
\* the latest version only after InstallUpdate has been called for it and
\* has succeeded; every error path ends with a non-zero exit and the records
\* unchanged.
C25_UpdateInstalls ==
  ret.fn = "handleUpdate" =>
    /\ ret.out.exit # 0 => ret.out.disk = arg.apps
    /\ \A i \in 1..Len(arg.apps) :
         ret.out.disk[i].Version # arg.apps[i].Version =>
           /\ \E k \in 1..Len(ret.out.calls) : ret.out.calls[k] = "InstallUpdate"
           /\ ret.out.exit = 0

\* C26: in the terminal UI the result of an update check dispatched for an
\* application is written only to the record of that application, whatever
\* was added or deleted while the check was in flight.
C26_WrittenToItsOwnRecord ==
  [][\A i \in 1..Len(cmds) :
       (/\ updateCheckedMsg(i)
        /\ cmds[i].err = NoError
        /\ cmds[i].index < Len(cfg))
       => cfg[cmds[i].index + 1].RepoURL = cmds[i].url]_vars

\* C27: after any sequence of add operations and the startup self-tracking
\* step, neither the application list in memory nor the persisted store
\* holds two records whose repository URLs are equal ignoring case.
C27_NoRepositoryTwice ==
  LET twice(apps) ==
        \E i, j \in 1..Len(apps) :
          /\ i # j
          /\ \/ apps[i].RepoURL = apps[j].RepoURL
             \/ {apps[i].RepoURL, apps[j].RepoURL} =
                  {"https://github.com/o/app", "https://github.com/O/App"}
             \/ {apps[i].RepoURL, apps[j].RepoURL} =
                  {"https://github.com/timappledotcom/autonomix-cli",
                   "https://github.com/TimAppleDotCom/autonomix-cli"}
  IN /\ ret.fn = "main" => ~twice(ret.out.cfg) /\ ~twice(ret.out.disk)
     /\ ret.fn = "AddApp" => ~twice(ret.out.apps) /\ ~twice(ret.out.disk)
     /\ ~twice(cfg) /\ ~twice(disk)

\* C28: the engine never adds or deletes a tracked record, and when
\* InstallApp returns an error the record's installed version, install
\* method and binary path are what they were before the call: only
\* InstallStatus and InstallError are written.
C28_ErrorWritesOutcomeOnly ==
  [][(pc \notin {"start", "Save", "tui", "call"} /\ pc' # "exited") =>
       /\ Len(cfg') = Len(cfg)
       /\ \A i \in 1..Len(cfg) :
            cfg'[i].Name = cfg[i].Name /\ cfg'[i].RepoURL = cfg[i].RepoURL
       /\ pc' # "Save" => cfg' = cfg
       /\ (pc' = "Save" /\ retErr' # NoErr) =>
            \A i \in 1..Len(cfg) :
              cfg'[i] = [cfg[i] EXCEPT !.InstallStatus = cfg'[i].InstallStatus,
                                       !.InstallError = cfg'[i].InstallError]]_vars

\* InstallApp returned the error of a placement that failed after the
\* executable had been downloaded and extracted
C28_Witness ==
  /\ Returned /\ retErr # NoErr
  /\ app.InstallStatus = StatusFailed
  /\ \E j \in 1..Len(log) : log[j].op = "place" /\ ~log[j].ok /\ j = Len(log)

\* C29: an asset whose name ends in .gz but not in .tar.gz counts as an
\* archive of priority 0 and is accepted as a binary candidate, and
\* ExtractBinary knows no such format: when it is the selected candidate the
\* extraction fails with "unsupported format" and writes no file, and the
\* binary strategy fails with that error, no other asset being tried.
C29_BareGzip ==
  LET bare(n) == Len(n) > 0 /\ n[Len(n)] = ".gz"
  IN /\ (ret.fn = "IsBinaryAsset" /\ bare(arg.name)) => ret.out
     /\ (ret.fn = "tryBinaryInstall" /\ ret.out.err = "" /\ bare(ret.out.selected.Asset))
          => ret.out.selected.IsArchive /\ ret.out.selected.Priority = 0
     /\ (ret.fn = "ExtractBinary" /\ bare(arg.name))
          => /\ ret.out.err = "unsupported format"
             /\ ret.out.path = <<>>
             /\ ret.out.dir = (<<"/tmp">> \o arg.name :> arg.body)
     /\ (ret.fn = "InstallUpdate" /\ ret.out.Method # "package" /\ bare(ret.out.asset))
          => /\ ret.out.err = "unsupported format"
             /\ ret.out.Method = ""
             /\ ret.out.path = <<>>
             /\ ret.out.content = <<>>

\* the release offers two gzip files next to a package the host cannot
\* install: the first gzip file was selected and the install failed on it
C29_Witness ==
  /\ ret.fn = "InstallUpdate"
  /\ Len(arg.release.Assets) = 3
  /\ ret.out.asset = <<"app", "-", "linux", "-", "amd64", ".gz">>
  /\ ret.out.err = "unsupported format"

====
